---- MODULE Spec2Model ----
\* A model of the job lifecycle client of the GST bulk puller:
\* the pull batch (main.py run_pull_operation), the transport and job
\* submission (api_client.py), the status poller and the export wait loops
\* (utils.py process_export_batch, main.py run_direct_export).
\*
\* Python strings that the code takes apart or builds with f-strings are
\* sequences of string tokens: concatenation is \o, `x in s` is Contains,
\* s.startswith(x) looks at the first token.  None is the token NoneT.
EXTENDS Integers, Sequences, FiniteSets, TLC

----------------------------------------------------------------------------
\* Bounds of the model

\* companies read from the input sheet
MaxCompanies == 2
\* months of the requested range
MaxMonths == 3
\* selected report types
MaxReports == 2
\* vendor status codes -MaxCode..MaxCode of a single status query (next to
\* the codes around 99 and 100)
MaxCode == 3
\* units of work (company x month x report type) of one run
MaxUnits == 4
\* export batches of one run
MaxBatches == 2
\* submission calls of one run that the vendor answers with anything but an
\* immediate success
MaxFaults == 4
\* operations in the queue handed to smart_retry_with_backoff on its own
MaxQueue == 2

----------------------------------------------------------------------------
\* Configuration (config.py)

API_RETRY_COUNT == 3
PULL_DELAY_BETWEEN_CALLS == 1
PULL_RETRY_DELAY == 2
API_RETRY_DELAY == 2
RETRY_EXPONENTIAL_BASE == 2
RETRY_MAX_WAIT == 30
SMART_RETRY_ENABLED == TRUE

\* the keys of GST_REPORTS; which of them are enabled is the variable
\* gst_enabled (the flags are meant to be switched on as APIs are released)
GST_REPORTS == {"GSTR-2A", "GSTR-2B", "IMS", "IMS-RECO", "ANNUAL-REPORT",
                "GSTR-2B-RECO", "ITC-CLAIMS", "GSTR-1", "GSTR-3B"}

----------------------------------------------------------------------------
\* Strings

NoneT == "<None>"
NoneMsg == <<NoneT>>
EmptyStr == <<>>

\* Python truthiness of an optional string held as a token sequence
Truthy(s) == s # EmptyStr /\ s # NoneMsg
\* Python truthiness of an optional string held as one token
TruthyT(t) == t # "" /\ t # NoneT

\* `tok in s`, for a phrase kept as one token
Contains(s, tok) == \E i \in 1..Len(s) : s[i] = tok

NOT_CONNECTED == "Not connected to GST System"

----------------------------------------------------------------------------
\* Vendor responses to one HTTP request

\* an HTTP response: status code, whether the body parses as JSON, the jobId
\* of the body (NoneT when the field is absent), the two Octa error headers
\* (NoneT when absent; the message header is a token sequence)
Http(code, json, jobId, errcode, errmsg) ==
    [kind |-> "http", code |-> code, json |-> json, jobId |-> jobId,
     errcode |-> errcode, errmsg |-> errmsg]
Ok(jobId) == Http(200, TRUE, jobId, NoneT, NoneMsg)
H400(errcode, errmsg) == Http(400, TRUE, NoneT, errcode, errmsg)
Status(code) == Http(code, TRUE, NoneT, NoneT, NoneMsg)
Timeout == [kind |-> "timeout", code |-> 0, json |-> FALSE, jobId |-> NoneT,
            errcode |-> NoneT, errmsg |-> NoneMsg]
ConnError == [kind |-> "connection", code |-> 0, json |-> FALSE,
              jobId |-> NoneT, errcode |-> NoneT, errmsg |-> NoneMsg]

\* an exception of the request that is neither a timeout nor a connection error
OtherError == [kind |-> "exception", code |-> 0, json |-> FALSE,
               jobId |-> NoneT, errcode |-> NoneT, errmsg |-> NoneMsg]

\* response.headers.get(name, default)
HeaderGet(h, default) == IF h = NoneT THEN default ELSE h
HeaderGetMsg(h, default) == IF h = NoneMsg THEN default ELSE h

----------------------------------------------------------------------------
\* api_client.py: pull_gst_report

Ret(success, job_id, error, posts) ==
    [success |-> success, job_id |-> job_id, error |-> error, posts |-> posts]

\* period 'YYYY-MM' held as <<year, month>>
PeriodStr(p) == <<ToString(p[1]), "-", ToString(p[2])>>

\* MoreAttempts going on after the last attempt
MoreAttemptsAlways(attempt) == attempt < API_RETRY_COUNT

\* MoreAttempts giving up after the first attempt
MoreAttemptsNever(attempt) == attempt < 0

\* `attempt < API_RETRY_COUNT - 1`: the test before each local retry
MoreAttempts(attempt) == attempt < API_RETRY_COUNT - 1

\* the retry loop from attempt `attempt` on; script[k] answers the k-th POST
RECURSIVE PullAttempt(_, _, _, _)
PullAttempt(attempt, gstin, return_period, script) ==
    IF attempt >= API_RETRY_COUNT
    THEN Ret(FALSE, NoneT, <<"Max retries exceeded">>, attempt)
    ELSE
    LET response == script[attempt + 1]
        posts == attempt + 1
        more == MoreAttempts(attempt)
    IN  CASE response.kind = "timeout" ->
                IF more THEN PullAttempt(attempt + 1, gstin, return_period, script)
                ELSE Ret(FALSE, NoneT, <<"Request timeout">>, posts)
          [] response.kind = "connection" ->
                IF more THEN PullAttempt(attempt + 1, gstin, return_period, script)
                ELSE Ret(FALSE, NoneT, <<"Connection error - Check internet">>, posts)
          [] response.kind = "http" /\ response.code = 200 ->
                IF ~response.json
                THEN Ret(FALSE, NoneT, <<"Invalid JSON response">>, posts)
                ELSE IF TruthyT(response.jobId)
                THEN Ret(TRUE, response.jobId, NoneMsg, posts)
                ELSE Ret(FALSE, NoneT, <<"No job ID in response">>, posts)
          [] response.kind = "http" /\ response.code = 400 ->
                LET error_code == HeaderGet(response.errcode, "Unknown")
                    error_msg == HeaderGetMsg(response.errmsg, <<"Bad Request">>)
                IN  IF error_code = "2000"
                    THEN Ret(FALSE, NoneT,
                             <<NOT_CONNECTED,
                               " - Please complete OTP verification for ",
                               gstin>>, posts)
                    ELSE IF error_code = "100"
                    THEN Ret(FALSE, NoneT,
                             <<"Invalid period format: ">> \o PeriodStr(return_period),
                             posts)
                    ELSE Ret(FALSE, NoneT,
                             <<"Error ", error_code, ": ">> \o error_msg, posts)
          [] response.kind = "http" /\ response.code = 401 ->
                Ret(FALSE, NoneT, <<"Authentication failed - Check API credentials">>, posts)
          [] response.kind = "http" /\ response.code = 403 ->
                Ret(FALSE, NoneT, <<"Access denied - Check company permissions">>, posts)
          [] response.kind = "http" /\ response.code = 429 ->
                IF more THEN PullAttempt(attempt + 1, gstin, return_period, script)
                ELSE Ret(FALSE, NoneT, <<"Rate limit exceeded">>, posts)
          [] response.kind = "http" /\ response.code = 500 ->
                IF more THEN PullAttempt(attempt + 1, gstin, return_period, script)
                ELSE Ret(FALSE, NoneT, <<"OCTA GST server error">>, posts)
          [] response.kind = "exception" ->
                Ret(FALSE, NoneT, <<"Unexpected error: ", "<e>">>, posts)
          [] OTHER ->
                Ret(FALSE, NoneT,
                    <<"HTTP ", ToString(response.code), ": ", "<body>">>, posts)

\* ReportTypeError without the test of the 'enabled' flag
ReportTypeErrorKnownOnly(enabled, report_type) ==
    IF report_type \notin GST_REPORTS
    THEN <<"Unknown report type: ", report_type>>
    ELSE NoneMsg

\* the two tests both submission methods start with: the message of the early
\* return, NoneMsg when the report type passes
ReportTypeError(enabled, report_type) ==
    IF report_type \notin GST_REPORTS
    THEN <<"Unknown report type: ", report_type>>
    ELSE IF report_type \notin enabled
    THEN <<report_type, " is not yet enabled. Waiting for API documentation.">>
    ELSE NoneMsg

pull_gst_report(enabled, report_type, company_id, gstin, return_period, script) ==
    IF ReportTypeError(enabled, report_type) # NoneMsg
    THEN Ret(FALSE, NoneT, ReportTypeError(enabled, report_type), 0)
    ELSE PullAttempt(0, gstin, return_period, script)

\* api_client.py: export_gst_report; one POST, no retry loop
export_gst_report(enabled, report_type, company_id, gstin, start_period, end_period, report_format, script) ==
    IF ReportTypeError(enabled, report_type) # NoneMsg
    THEN Ret(FALSE, NoneT, ReportTypeError(enabled, report_type), 0)
    ELSE
    LET response == script[1]
    IN  CASE response.kind = "timeout" ->
                Ret(FALSE, NoneT, <<"Request timeout">>, 1)
          [] response.kind = "connection" ->
                Ret(FALSE, NoneT, <<"Connection error">>, 1)
          [] response.kind = "exception" ->
                Ret(FALSE, NoneT, <<"<e>">>, 1)
          [] response.kind = "http" /\ response.code = 200 ->
                IF ~response.json
                THEN Ret(FALSE, NoneT, <<"Invalid JSON response: ", "<e>">>, 1)
                ELSE IF TruthyT(response.jobId)
                THEN Ret(TRUE, response.jobId, NoneMsg, 1)
                ELSE Ret(FALSE, NoneT, <<"No job ID in response">>, 1)
          [] response.kind = "http" /\ response.code = 400 ->
                LET error_msg == HeaderGetMsg(response.errmsg, <<"Bad Request">>)
                    error_code == HeaderGet(response.errcode, "")
                IN  Ret(FALSE, NoneT, <<"Error ", error_code, ": ">> \o error_msg, 1)
          [] response.kind = "http" /\ response.code = 401 ->
                Ret(FALSE, NoneT, <<"Authentication failed - Check API credentials">>, 1)
          [] response.kind = "http" /\ response.code = 403 ->
                Ret(FALSE, NoneT, <<"Access denied - Check company permissions">>, 1)
          [] OTHER ->
                Ret(FALSE, NoneT,
                    HeaderGetMsg(response.errmsg,
                                 <<"HTTP ", ToString(response.code)>>), 1)

----------------------------------------------------------------------------
\* utils.py: generate_month_range

PeriodLE(a, b) == a[1] < b[1] \/ (a[1] = b[1] /\ a[2] <= b[2])

NextMonth(p) == IF p[2] = 12 THEN <<p[1] + 1, 1>> ELSE <<p[1], p[2] + 1>>

RECURSIVE MonthsFrom(_, _)
MonthsFrom(current_date, end_date) ==
    IF PeriodLE(current_date, end_date)
    THEN <<current_date>> \o MonthsFrom(NextMonth(current_date), end_date)
    ELSE <<>>

\* generate_month_range without the swap of a reversed pair
generate_month_range_as_given(start_period, end_period) ==
    MonthsFrom(start_period, end_period)

\* utils.py 48-80
generate_month_range(start_period, end_period) ==
    IF PeriodLE(start_period, end_period)
    THEN MonthsFrom(start_period, end_period)
    ELSE MonthsFrom(end_period, start_period)

----------------------------------------------------------------------------
\* Inputs of a run

\* rows of the input sheet as excel_handler.read_companies returns them
CompanyPool ==
    { [Company_ID |-> <<"3372">>, Company_Name |-> "Alpha",
       GSTIN |-> "19AADCG0737G1ZQ"],
      [Company_ID |-> <<"oc-", "77">>, Company_Name |-> "Beta",
       GSTIN |-> "27AAACB1234C1Z5"],
      [Company_ID |-> EmptyStr, Company_Name |-> "Gamma",
       GSTIN |-> "29AAACG9999D1Z1"] }

FirstPeriod == <<2024, 12>>

RECURSIVE PeriodsFrom(_, _)
PeriodsFrom(p, n) == IF n = 0 THEN {} ELSE {p} \cup PeriodsFrom(NextMonth(p), n - 1)

\* the periods the user may type as start and as end
PeriodPool == PeriodsFrom(FirstPeriod, MaxMonths)

\* the (start, end) pairs typed: FirstPeriod is one of the two, in either order
PeriodInputs ==
    { p \in PeriodPool \X PeriodPool : p[1] = FirstPeriod \/ p[2] = FirstPeriod }

ReportPool == {"GSTR-2A", "GSTR-2B"}

SeqsUpTo(S, n) == UNION { [1..k -> S] : k \in 1..n }

\* the sheets read: up to MaxCompanies rows, each company once; Alpha and
\* Beta differ in the form of the Company ID only, so Beta is read in sheets
\* that hold Alpha before it
CompanyLists ==
    { s \in SeqsUpTo(CompanyPool, MaxCompanies) :
        /\ \A i, j \in 1..Len(s) : i # j => s[i] # s[j]
        /\ \A j \in 1..Len(s) :
              s[j].Company_Name = "Beta" =>
                  \E i \in 1..(j - 1) : s[i].Company_Name = "Alpha" }

ReportSelections ==
    { s \in SeqsUpTo(ReportPool, MaxReports) :
        \A i, j \in 1..Len(s) : i # j => s[i] # s[j] }

\* what the vendor answers to the POSTs of one submission call
OkScript == <<Ok("J123")>>
VendorScripts ==
    { OkScript,
      <<H400("2000", <<"OTP pending">>)>>,
      <<H400("2017", <<"GSTIN ", NOT_CONNECTED>>)>>,
      <<Timeout, Timeout, Timeout>> }

ScriptsFor(f) == IF f < MaxFaults THEN VendorScripts ELSE {OkScript}

----------------------------------------------------------------------------
\* State

VARIABLES
    \* configuration and inputs
    companies, months, report_types, skip_toggle, gst_enabled,
    \* run_pull_operation: position and locals
    pc, ci, mi, ri, company_not_connected, not_connected_error,
    current_operation, results, failed_operations,
    \* smart_retry_with_backoff: position and locals
    ro, attempt, retry_results,
    \* what excel_handler.save_results received
    saved,
    \* history: the submission calls and sleeps of the run, vendor faults used
    log, faults,
    \* export: which path runs ("direct": run_direct_export, "phase":
    \* run_export_phase with process_export_batch), the batches, the position
    mode, export_batches, bi, epc,
    \* export: the locals of the wait loop
    wait_job_id, waited, job_completed, job_status,
    \* export: the tracking lists
    export_results, failed_exports,
    \* history: the status queries made for the current job, and how its
    \* download_export call ended ("none" while there was no such call)
    polls, dl_outcome,
    \* a single status query: the vendor's answer to it
    status_input,
    \* a single submission: the report type and the vendor's answers to the
    \* POSTs, what pull_gst_report and what export_gst_report returned for them
    submit_input, pull_ret, export_ret,
    \* a single download: the vendor's answers to the re-query of the status
    \* and to the GET of the file, what download_export returned for them
    download_input, dl_ret

pullVars == <<companies, months, report_types, skip_toggle, gst_enabled,
              pc, ci, mi, ri, company_not_connected, not_connected_error,
              current_operation, results, failed_operations,
              ro, attempt, retry_results, saved, log, faults>>

exportVars == <<mode, export_batches, bi, epc, wait_job_id, waited, job_completed,
                job_status, export_results, failed_exports, polls, dl_outcome>>

queryVars == <<status_input, submit_input, pull_ret, export_ret, download_input, dl_ret>>

vars == <<pullVars, exportVars, queryVars>>

total_operations == Len(companies) * Len(months) * Len(report_types)

\* main.py 135-141: the three fields of a row, the company id with its prefix
CompanyId(company) ==
    IF company.Company_ID # EmptyStr /\ company.Company_ID[1] # "oc-"
    THEN <<"oc-">> \o company.Company_ID
    ELSE company.Company_ID

Result(report_type, company_id, company_name, gstin, month, job_id, status, error) ==
    [Report_Type |-> report_type, Company_ID |-> company_id,
     Company_Name |-> company_name, GSTIN |-> gstin, Return_Period |-> month,
     Job_ID |-> job_id, Status |-> status, Error_Message |-> error]

\* line 208: the not-connected reason, matched by substring
IsNotConnected(success, error_msg) ==
    ~success /\ Truthy(error_msg) /\ Contains(error_msg, NOT_CONNECTED)

\* history events: a submission call for unit (c, m, r) that made n POSTs and
\* returned ret, and a sleep of n seconds
PullEvent(c, m, r, ph, ret) ==
    [ev |-> "pull", c |-> c, m |-> m, r |-> r, n |-> ret.posts, ph |-> ph,
     ok |-> ret.success, nc |-> IsNotConnected(ret.success, ret.error),
     err |-> ret.error]
SleepEvent(secs, ph) ==
    [ev |-> "sleep", c |-> 0, m |-> 0, r |-> 0, n |-> secs, ph |-> ph,
     ok |-> FALSE, nc |-> FALSE, err |-> NoneMsg]

NoResp == [kind |-> "<none>", code |-> 0, json |-> FALSE, jobStatus |-> <<>>,
           url |-> NoneMsg, message |-> NoneMsg, disp |-> NoneMsg, size |-> 0]

NoSnapshot == [status |-> "<none>", jobStatus |-> <<>>, url |-> NoneMsg,
               message |-> NoneMsg]

\* a return value standing for "not called"
NoRet == [success |-> FALSE, job_id |-> NoneT, error |-> NoneMsg, posts |-> -1]

\* a return value of download_export standing for "not called"
NoDlRet == [success |-> FALSE, filepath |-> NoneMsg, filename |-> NoneMsg,
            gets |-> -1, written |-> -1]

\* the variables of a single submission while another operation runs
SubmitIdle ==
    /\ submit_input = [report_type |-> "GSTR-2A", script |-> <<>>]
    /\ pull_ret = NoRet
    /\ export_ret = NoRet

\* the variables of a single download while another operation runs
DownloadIdle ==
    /\ download_input = <<NoResp, NoResp>>
    /\ dl_ret = NoDlRet

\* the export variables while the pull operation runs
ExportIdle ==
    /\ mode = "none" /\ export_batches = <<>> /\ bi = 0 /\ epc = "idle"
    /\ wait_job_id = NoneT /\ waited = 0 /\ job_completed = FALSE
    /\ job_status = NoSnapshot
    /\ export_results = <<>> /\ failed_exports = <<>>
    /\ polls = 0 /\ dl_outcome = "none"

InitPull ==
    /\ ExportIdle
    /\ status_input = NoResp
    /\ SubmitIdle
    /\ DownloadIdle
    /\ companies \in CompanyLists
    /\ \E p \in PeriodInputs : months = generate_month_range(p[1], p[2])
    /\ report_types \in ReportSelections
    /\ Len(companies) * Len(months) * Len(report_types) <= MaxUnits
    /\ skip_toggle \in BOOLEAN
    /\ gst_enabled \in {{"GSTR-2A"},
                        {"GSTR-2A"} \cup {report_types[i] : i \in 1..Len(report_types)}}
    /\ pc = "company"
    /\ ci = 1 /\ mi = 1 /\ ri = 1
    /\ company_not_connected = FALSE
    /\ not_connected_error = NoneMsg
    /\ current_operation = 0
    /\ results = <<>>
    /\ failed_operations = <<>>
    /\ ro = 1 /\ attempt = 1
    /\ retry_results = <<>>
    /\ saved = <<>>
    /\ log = <<>>
    /\ faults = 0

----------------------------------------------------------------------------
\* main.py: run_pull_operation

\* SkippedRow stopping after its first result
SkippedRowFirstOnly(r, company_id, company_name, gstin, month, error) ==
    IF r > 1 THEN <<>>
    ELSE <<Result(report_types[r], company_id, company_name, gstin, month,
                  "", "Skipped", error)>>

\* the Skipped results of one month, one per report type from position r on
RECURSIVE SkippedRow(_, _, _, _, _, _)
SkippedRow(r, company_id, company_name, gstin, month, error) ==
    IF r > Len(report_types) THEN <<>>
    ELSE <<Result(report_types[r], company_id, company_name, gstin, month,
                  "", "Skipped", error)>>
         \o SkippedRow(r + 1, company_id, company_name, gstin, month, error)

\* MissingRows recording nothing for the company
MissingRowsNone(m, company_id, company_name, gstin) == <<>>

\* lines 146-158: the results of a company without Company ID or GSTIN
RECURSIVE MissingRows(_, _, _, _)
MissingRows(m, company_id, company_name, gstin) ==
    IF m > Len(months) THEN <<>>
    ELSE SkippedRow(1, IF company_id # EmptyStr THEN company_id ELSE <<"Missing">>,
                    company_name, IF gstin # "" THEN gstin ELSE "Missing",
                    months[m], <<"Missing Company ID or GSTIN">>)
         \o MissingRows(m + 1, company_id, company_name, gstin)

\* FlagAtCompanyStart keeping the flag of the company before
FlagCarriedOver == company_not_connected

\* line 165: the flag a company starts with
FlagAtCompanyStart == FALSE

\* lines 134-166: the head of the company loop
CompanyBegin ==
    /\ pc = "company"
    /\ IF ci > Len(companies)
       THEN /\ pc' = "after_loop"
            /\ UNCHANGED <<ci, mi, company_not_connected, not_connected_error,
                           results>>
       ELSE LET company == companies[ci]
                company_id == CompanyId(company)
                gstin == company.GSTIN
            IN  IF company_id = EmptyStr \/ gstin = ""
                THEN /\ results' = results \o
                            MissingRows(1, company_id, company.Company_Name, gstin)
                     /\ ci' = ci + 1
                     /\ UNCHANGED <<pc, mi, company_not_connected,
                                    not_connected_error>>
                ELSE /\ company_not_connected' = FlagAtCompanyStart
                     /\ not_connected_error' = NoneMsg
                     /\ mi' = 1
                     /\ pc' = "month"
                     /\ UNCHANGED <<ci, results>>
    /\ UNCHANGED <<exportVars, queryVars, companies, months, report_types, skip_toggle,
                   gst_enabled,
                   ri, current_operation, failed_operations, ro, attempt,
                   retry_results, saved, log, faults>>

\* lines 169-190: the head of the month loop, with the not-connected skip
MonthBegin ==
    /\ pc = "month"
    /\ IF mi > Len(months)
       THEN /\ pc' = "company"
            /\ ci' = ci + 1
            /\ UNCHANGED <<mi, ri, current_operation, results>>
       ELSE IF company_not_connected
       THEN LET company == companies[ci]
            IN  /\ results' = results \o
                       SkippedRow(1, CompanyId(company), company.Company_Name,
                                  company.GSTIN, months[mi], not_connected_error)
                /\ current_operation' = current_operation + Len(report_types)
                /\ mi' = mi + 1
                /\ UNCHANGED <<pc, ci, ri>>
       ELSE /\ ri' = 1
            /\ pc' = "unit"
            /\ UNCHANGED <<ci, mi, current_operation, results>>
    /\ UNCHANGED <<exportVars, queryVars, companies, months, report_types, skip_toggle,
                   gst_enabled,
                   company_not_connected, not_connected_error,
                   failed_operations, ro, attempt, retry_results, saved,
                   log, faults>>

FailedOp(report_type, company_id, company_name, gstin, month, error) ==
    [operation_type |-> "pull", report_type |-> report_type,
     company_id |-> company_id, company_name |-> company_name,
     gstin |-> gstin, return_period |-> month, error |-> error]

\* the scripts the vendor may play for a submission of report_type
ScriptsOf(report_type) ==
    IF report_type \in gst_enabled THEN ScriptsFor(faults) ELSE {OkScript}

Fault(report_type, script) ==
    IF report_type \in gst_enabled /\ script # OkScript THEN 1 ELSE 0

\* lines 209-211: the message kept for the months that will be skipped
NotConnectedError(hit, error_msg, old) == IF hit THEN error_msg ELSE old

\* SetsFlag without the configuration test
SetsFlagAlways(nc, toggle) == nc

\* lines 207-210: whether the answer flags the company as not connected
SetsFlag(nc, toggle) == nc /\ toggle

\* ToRetryQueue queuing every unit that did not succeed
ToRetryQueueAll(success, cnc) == ~success

\* line 217: whether the unit enters the retry queue
ToRetryQueue(success, cnc) == ~success /\ ~cnc

\* JobIdField writing the job id as it was returned
JobIdFieldAsReturned(job_id) == job_id

\* line 235: 'Job ID': job_id if job_id else ''
JobIdField(job_id) == IF TruthyT(job_id) THEN job_id ELSE ""

\* line 236: the status recorded for the unit
UnitStatus(success, cnc) ==
    IF success THEN "Success" ELSE IF cnc THEN "Skipped" ELSE "Failed"

\* line 249: whether the delay between calls is slept
InterCallDelay(cur, total, cnc) == cur < total /\ ~cnc

\* lines 193-250: one unit of work
PullUnit ==
    /\ pc = "unit"
    /\ \E script \in ScriptsOf(report_types[ri]) :
        LET company == companies[ci]
            company_id == CompanyId(company)
            company_name == company.Company_Name
            gstin == company.GSTIN
            month == months[mi]
            report_type == report_types[ri]
            cur == current_operation + 1
            ret == pull_gst_report(gst_enabled, report_type, company_id, gstin,
                                   month, script)
            success == ret.success
            job_id == ret.job_id
            error_msg == ret.error
            hit == SetsFlag(IsNotConnected(success, error_msg), skip_toggle)
            cnc == IF hit THEN TRUE ELSE company_not_connected
            status == UnitStatus(success, cnc)
            slept == IF InterCallDelay(cur, total_operations, cnc)
                     THEN <<SleepEvent(PULL_DELAY_BETWEEN_CALLS, "main")>>
                     ELSE <<>>
        IN  /\ current_operation' = cur
            /\ company_not_connected' = cnc
            /\ not_connected_error' =
                  NotConnectedError(hit, error_msg, not_connected_error)
            /\ failed_operations' =
                  IF ToRetryQueue(success, cnc)
                  THEN Append(failed_operations,
                              FailedOp(report_type, company_id, company_name,
                                       gstin, month, error_msg))
                  ELSE failed_operations
            /\ results' = Append(results,
                  Result(report_type, company_id, company_name, gstin, month,
                         JobIdField(job_id),
                         status,
                         IF Truthy(error_msg) THEN error_msg ELSE <<"-">>))
            /\ log' = Append(log, PullEvent(ci, mi, ri, "main", ret)) \o slept
            /\ faults' = faults + Fault(report_type, script)
    /\ IF ri < Len(report_types)
       THEN ri' = ri + 1 /\ UNCHANGED <<pc, mi>>
       ELSE pc' = "month" /\ mi' = mi + 1 /\ UNCHANGED ri
    /\ UNCHANGED <<exportVars, queryVars, companies, months, report_types, skip_toggle,
                   gst_enabled,
                   ci, ro, attempt, retry_results, saved>>

\* lines 252-254: the call of smart_retry_with_backoff
AfterLoop ==
    /\ pc = "after_loop"
    /\ pc' = IF failed_operations # <<>> THEN "retry" ELSE "save"
    /\ ro' = 1 /\ attempt' = 1
    /\ retry_results' = <<>>
    /\ UNCHANGED <<exportVars, queryVars, companies, months, report_types, skip_toggle,
                   gst_enabled,
                   ci, mi, ri, company_not_connected, not_connected_error,
                   current_operation, results, failed_operations, saved,
                   log, faults>>

----------------------------------------------------------------------------
\* utils.py: smart_retry_with_backoff

max_attempts == 3

Min(a, b) == IF a < b THEN a ELSE b

RetryResult(operation, retry_status, retry_attempts, job_id, final_error) ==
    [operation |-> operation, retry_status |-> retry_status,
     retry_attempts |-> retry_attempts, job_id |-> job_id,
     final_error |-> final_error]

\* BackoffWait without the exponent: the wait_time of line 891
BackoffWaitFlat(att) == Min(RETRY_EXPONENTIAL_BASE, RETRY_MAX_WAIT)

\* lines 926-930: the wait before the next attempt
BackoffWait(att) == Min(RETRY_EXPONENTIAL_BASE ^ att, RETRY_MAX_WAIT)

\* a queued export: the keys the export branch reads
ExportOp(report_type, company_id, company_name, gstin, start_period, end_period, error) ==
    [operation_type |-> "export", report_type |-> report_type,
     company_id |-> company_id, company_name |-> company_name,
     gstin |-> gstin, start_period |-> start_period,
     end_period |-> end_period, error |-> error]

\* lines 897 and 904: the method an operation is retried with
RetryMethod(operation) ==
    IF operation.operation_type = "pull" THEN "pull" ELSE "export"

\* lines 897-912: the submission an operation is retried with
RetrySubmit(operation, script) ==
    IF RetryMethod(operation) = "pull"
    THEN pull_gst_report(gst_enabled, operation.report_type,
                         operation.company_id, operation.gstin,
                         operation.return_period, script)
    ELSE export_gst_report(gst_enabled, operation.report_type,
                           operation.company_id, operation.gstin,
                           operation.start_period, operation.end_period,
                           101, script)


\* AttemptsLeft with one attempt more
AttemptsLeftOneMore(att) == att < max_attempts + 1

\* line 926: whether another attempt follows a failed one
AttemptsLeft(att) == att < max_attempts

\* lines 888-939: one attempt of the retry loop; past the last operation the
\* function returns
RetryAttempt ==
    /\ pc = "retry"
    /\ IF ~SMART_RETRY_ENABLED \/ ro > Len(failed_operations)
       THEN /\ pc' = "update"
            /\ UNCHANGED <<ro, attempt, retry_results, log, faults>>
       ELSE \E script \in ScriptsOf(failed_operations[ro].report_type) :
            LET operation == failed_operations[ro]
                ret == RetrySubmit(operation, script)
                called == [PullEvent(ro, 0, attempt, "retry", ret)
                              EXCEPT !.ev = RetryMethod(operation)]
            IN  /\ faults' = faults + Fault(operation.report_type, script)
                /\ pc' = pc
                /\ IF ret.success
                   THEN /\ retry_results' = Append(retry_results,
                              RetryResult(operation, "Success", attempt,
                                          ret.job_id, NoneMsg))
                        /\ ro' = ro + 1 /\ attempt' = 1
                        /\ log' = Append(log, called)
                   ELSE IF AttemptsLeft(attempt)
                   THEN /\ attempt' = attempt + 1
                        /\ log' = log \o <<called,
                                            SleepEvent(BackoffWait(attempt), "retry")>>
                        /\ UNCHANGED <<ro, retry_results>>
                   ELSE /\ retry_results' = Append(retry_results,
                              RetryResult(operation, "Failed", attempt,
                                          NoneT, ret.error))
                        /\ ro' = ro + 1 /\ attempt' = 1
                        /\ log' = Append(log, called)
    /\ UNCHANGED <<exportVars, queryVars, companies, months, report_types, skip_toggle,
                   gst_enabled,
                   ci, mi, ri, company_not_connected, not_connected_error,
                   current_operation, results, failed_operations, saved>>

----------------------------------------------------------------------------
\* main.py 255-266: the results updated with the retry outcomes

RetryMatches(r, retry) ==
    /\ r.Report_Type = retry.operation.report_type
    /\ r.Company_Name = retry.operation.company_name
    /\ r.Return_Period = retry.operation.return_period
    /\ r.Status = "Failed"

ApplyRetry(rs, retry) ==
    LET hits == { i \in 1..Len(rs) : RetryMatches(rs[i], retry) }
    IN  IF retry.retry_status # "Success" \/ hits = {} THEN rs
        ELSE LET i == CHOOSE k \in hits : \A j \in hits : k <= j
             IN  [rs EXCEPT ![i] = [@ EXCEPT !.Status = "Success (After Retry)",
                                             !.Job_ID = retry.job_id]]

RECURSIVE UpdateFrom(_, _)
UpdateFrom(rs, k) ==
    IF k > Len(retry_results) THEN rs
    ELSE UpdateFrom(ApplyRetry(rs, retry_results[k]), k + 1)

UpdateResults ==
    /\ pc = "update"
    /\ results' = UpdateFrom(results, 1)
    /\ pc' = "save"
    /\ UNCHANGED <<exportVars, queryVars, companies, months, report_types, skip_toggle,
                   gst_enabled,
                   ci, mi, ri, company_not_connected, not_connected_error,
                   current_operation, failed_operations, ro, attempt,
                   retry_results, saved, log, faults>>

\* lines 268-276: excel_handler.save_results(results, output_file)
SaveResults ==
    /\ pc = "save"
    /\ saved' = results
    /\ pc' = "done"
    /\ UNCHANGED <<exportVars, queryVars, companies, months, report_types, skip_toggle,
                   gst_enabled,
                   ci, mi, ri, company_not_connected, not_connected_error,
                   current_operation, results, failed_operations, ro, attempt,
                   retry_results, log, faults>>

----------------------------------------------------------------------------
\* api_client.py: check_job_status

\* the vendor's answer to a status query or to a download GET.  jobStatus is
\* <<code>>, or <<>> when the body has no jobStatus; url and message are token
\* sequences, NoneMsg when absent; for a download, disp is the
\* content-disposition header and size the bytes the body carries
Resp(kind, code, json, jobStatus, url, message, disp, size) ==
    [kind |-> kind, code |-> code, json |-> json, jobStatus |-> jobStatus,
     url |-> url, message |-> message, disp |-> disp, size |-> size]
JobResp(jobStatus, url, message) ==
    Resp("http", 200, TRUE, jobStatus, url, message, NoneMsg, 0)
HttpResp(code) == Resp("http", code, TRUE, <<>>, NoneMsg, NoneMsg, NoneMsg, 0)
BadJsonResp == Resp("http", 200, FALSE, <<>>, NoneMsg, NoneMsg, NoneMsg, 0)
TimeoutResp == Resp("timeout", 0, FALSE, <<>>, NoneMsg, NoneMsg, NoneMsg, 0)
FileResp(disp, size) == Resp("http", 200, FALSE, <<>>, NoneMsg, NoneMsg, disp, size)

Snapshot(status, jobStatus, url, message) ==
    [status |-> status, jobStatus |-> jobStatus, url |-> url, message |-> message]

\* status_mapping with 'failed' as the default
status_mapping_failed(job_status_code) ==
    CASE job_status_code = <<100>> -> "completed"
      [] job_status_code = <<0>> -> "pending"
      [] job_status_code = <<1>> -> "processing"
      [] job_status_code = <<2>> -> "processing"
      [] job_status_code = <<-1>> -> "failed"
      [] job_status_code = <<-2>> -> "cancelled"
      [] job_status_code = <<99>> -> "expired"
      [] OTHER -> "failed"

\* lines 278-287: status_mapping.get(job_status_code, 'unknown')
status_mapping(job_status_code) ==
    CASE job_status_code = <<100>> -> "completed"
      [] job_status_code = <<0>> -> "pending"
      [] job_status_code = <<1>> -> "processing"
      [] job_status_code = <<2>> -> "processing"
      [] job_status_code = <<-1>> -> "failed"
      [] job_status_code = <<-2>> -> "cancelled"
      [] job_status_code = <<99>> -> "expired"
      [] OTHER -> "unknown"

\* check_job_status reading every answer as a job snapshot
check_job_status_unguarded(response) ==
    Snapshot(status_mapping(response.jobStatus), response.jobStatus,
             response.url, response.message)

check_job_status(response) ==
    IF response.kind # "http"
    THEN Snapshot("error", <<>>, NoneMsg, <<"<", response.kind, ">">>)
    ELSE IF response.code = 200
    THEN IF ~response.json
         THEN Snapshot("error", <<>>, NoneMsg, <<"<JSONDecodeError>">>)
         ELSE Snapshot(status_mapping(response.jobStatus), response.jobStatus,
                       response.url, response.message)
    ELSE Snapshot("error", <<>>, NoneMsg,
                  <<"Failed to get status: HTTP ", ToString(response.code)>>)

----------------------------------------------------------------------------
\* api_client.py: download_export

\* the returned triple, with the history of the call: gets, the GETs made on
\* the download URL, and written, the size of the file the call left in the
\* output directory, -1 when it left none
DlRet(success, filepath, filename, gets, written) ==
    [success |-> success, filepath |-> filepath, filename |-> filename,
     gets |-> gets, written |-> written]

\* lines 344-348: the filename of a content-disposition header, '' if none
DispFilename(content_disp) ==
    IF Truthy(content_disp) /\ Contains(content_disp, "filename=")
    THEN LET i == CHOOSE k \in 1..Len(content_disp) :
                      /\ content_disp[k] = "filename="
                      /\ \A j \in 1..(k - 1) : content_disp[j] # "filename="
         IN  IF i < Len(content_disp) THEN <<content_disp[i + 1]>> ELSE EmptyStr
    ELSE EmptyStr

\* path segments that carry '.xlsx', at their end or elsewhere
XlsxSegments == {"report.xlsx", "GSTR2A_2024.xlsx", "report.xlsx.tmp"}

\* lines 351-357: the last path segment of the URL, if it carries '.xlsx'
UrlFilename(download_url) ==
    LET last == download_url[Len(download_url)]
    IN  IF last # "" /\ last \in XlsxSegments THEN <<last>> ELSE EmptyStr

\* ResolveFilename looking at the URL before the header
ResolveFilenameUrlFirst(content_disp, download_url, job_id) ==
    IF UrlFilename(download_url) # EmptyStr THEN UrlFilename(download_url)
    ELSE IF DispFilename(content_disp) # EmptyStr THEN DispFilename(content_disp)
    ELSE <<"GSTR2A_Export_", job_id, "_", "<timestamp>", ".xlsx">>

\* lines 341-363: the filename, by source
ResolveFilename(content_disp, download_url, job_id) ==
    IF DispFilename(content_disp) # EmptyStr THEN DispFilename(content_disp)
    ELSE IF UrlFilename(download_url) # EmptyStr THEN UrlFilename(download_url)
    ELSE <<"GSTR2A_Export_", job_id, "_", "<timestamp>", ".xlsx">>

\* DownloadReady for every job the vendor still knows
DownloadReadyUnlessError(snapshot) == snapshot.status # "error"

\* line 319: the test of the re-queried snapshot
DownloadReady(snapshot) ==
    snapshot.jobStatus = <<100>> \/ snapshot.status = "completed"

\* FileVerified taking an empty file for a download
FileVerifiedExists(size) == size >= 0

\* line 380: filepath.exists() and filepath.stat().st_size > 0
FileVerified(size) == size > 0

\* status answers the re-query of the job status, file the GET of the URL
download_export(company_id, job_id, output_dir, status, file) ==
    LET requeried == check_job_status(status)
    IN  IF DownloadReady(requeried)
        THEN LET download_url == requeried.url
             IN  IF ~Truthy(download_url)
                 THEN DlRet(FALSE, NoneMsg, <<"No download URL in completed job">>,
                            0, -1)
                 ELSE IF file.kind # "http"
                 THEN DlRet(FALSE, NoneMsg, <<"<", file.kind, ">">>, 1, -1)
                 ELSE IF file.code # 200
                 THEN DlRet(FALSE, NoneMsg,
                            <<"Download failed: HTTP ", ToString(file.code)>>, 1, -1)
                 ELSE LET filename == ResolveFilename(file.disp, download_url, job_id)
                      IN  IF FileVerified(file.size)
                          THEN DlRet(TRUE, <<output_dir, "/">> \o filename, filename,
                                     1, file.size)
                          ELSE DlRet(FALSE, NoneMsg,
                                     <<"File creation failed or file is empty">>,
                                     1, file.size)
        ELSE LET shown == IF requeried.jobStatus # <<>>
                          THEN ToString(requeried.jobStatus[1])
                          ELSE requeried.status
             IN  DlRet(FALSE, NoneMsg, <<"Job not ready. Status: ", shown>>, 0, -1)

----------------------------------------------------------------------------
\* Export: inputs

EXPORT_MAX_WAIT == 180
EXPORT_CHECK_INTERVAL == 3
EXPORT_OUTPUT_DIR == "output/exports"

\* the i-th export batch
Batch(i) ==
    [company_id |-> <<"oc-", ToString(i)>>,
     company_name |-> <<"Company ", ToString(i)>>,
     gstin |-> <<"GSTIN-", ToString(i)>>,
     start_period |-> <<2024, 4>>, end_period |-> <<2024, 6>>]

selected_report == "GSTR-2A"
report_format == 101

\* what the vendor answers to the POST of an export submission
ExportScripts ==
    { OkScript, <<H400("2000", <<"OTP pending">>)>>, <<Timeout>> }

DownloadUrl == <<"https://bucket/exports/", "report.xlsx">>

\* what the vendor answers to one status query of the wait loop
PollResponses ==
    { JobResp(<<100>>, DownloadUrl, NoneMsg),
      JobResp(<<0>>, NoneMsg, NoneMsg),
      JobResp(<<1>>, NoneMsg, NoneMsg),
      JobResp(<<2>>, NoneMsg, NoneMsg),
      JobResp(<<-1>>, NoneMsg, <<"GSTN rejected the request">>),
      JobResp(<<-1>>, NoneMsg, NoneMsg),
      JobResp(<<-2>>, NoneMsg, NoneMsg),
      JobResp(<<99>>, NoneMsg, NoneMsg),
      JobResp(<<7>>, NoneMsg, NoneMsg),
      JobResp(<<>>, NoneMsg, NoneMsg),
      HttpResp(500),
      TimeoutResp }

\* what the vendor answers to the two requests of download_export: the
\* re-query of the status and the GET of the file
DownloadScripts ==
    { <<JobResp(<<100>>, DownloadUrl, NoneMsg),
        FileResp(<<"attachment; ", "filename=", "export.xlsx">>, 2048)>>,
      <<JobResp(<<100>>, DownloadUrl, NoneMsg), FileResp(NoneMsg, 0)>>,
      <<JobResp(<<1>>, NoneMsg, NoneMsg), FileResp(NoneMsg, 0)>> }

InitExport ==
    /\ companies = <<>> /\ months = <<>> /\ report_types = <<>>
    /\ skip_toggle = TRUE
    /\ gst_enabled = {"GSTR-2A"}
    /\ pc = "idle"
    /\ ci = 1 /\ mi = 1 /\ ri = 1
    /\ company_not_connected = FALSE
    /\ not_connected_error = NoneMsg
    /\ current_operation = 0
    /\ results = <<>>
    /\ failed_operations = <<>>
    /\ ro = 1 /\ attempt = 1
    /\ retry_results = <<>>
    /\ saved = <<>>
    /\ log = <<>>
    /\ faults = 0
    /\ mode \in {"direct", "phase"}
    /\ \E n \in 1..MaxBatches : export_batches = [i \in 1..n |-> Batch(i)]
    /\ bi = 1 /\ epc = "submit"
    /\ wait_job_id = NoneT /\ waited = 0 /\ job_completed = FALSE
    /\ job_status = NoSnapshot
    /\ export_results = <<>> /\ failed_exports = <<>>
    /\ polls = 0 /\ dl_outcome = "none"
    /\ status_input = NoResp
    /\ SubmitIdle
    /\ DownloadIdle

PeriodRange(batch) ==
    PeriodStr(batch.start_period) \o <<" to ">> \o PeriodStr(batch.end_period)

ExportResult(batch, job, filename, filepath, status, error, report_type) ==
    [Company |-> batch.company_name, GSTIN |-> batch.gstin,
     Period |-> PeriodRange(batch), Job_ID |-> job, Filename |-> filename,
     Filepath |-> filepath, Status |-> status, Error |-> error,
     Report_Type |-> report_type]

\* the position after batch bi
NextBatchPc == IF bi < Len(export_batches) THEN "submit" ELSE "done"

----------------------------------------------------------------------------
\* main.py: run_direct_export, lines 673-815

\* lines 680-697 and 793-807: the submission of one batch
DirectSubmit ==
    /\ mode = "direct" /\ epc = "submit"
    /\ \E script \in ExportScripts :
        LET batch == export_batches[bi]
            ret == export_gst_report(gst_enabled, selected_report,
                       batch.company_id, batch.gstin, batch.start_period,
                       batch.end_period, report_format, script)
        IN  IF ret.success /\ TruthyT(ret.job_id)
            THEN /\ wait_job_id' = ret.job_id
                 /\ waited' = 0
                 /\ job_completed' = FALSE
                 /\ epc' = "wait"
                 /\ UNCHANGED <<bi, export_results, failed_exports>>
            ELSE /\ failed_exports' = Append(failed_exports, batch)
                 /\ export_results' = Append(export_results,
                        ExportResult(batch, "", EmptyStr, NoneMsg,
                                     "Failed to Create Job", ret.error,
                                     selected_report))
                 /\ bi' = bi + 1
                 /\ epc' = NextBatchPc
                 /\ UNCHANGED <<wait_job_id, waited, job_completed>>
    /\ job_status' = NoSnapshot
    /\ polls' = 0
    /\ dl_outcome' = "none"
    /\ UNCHANGED <<pullVars, queryVars, mode, export_batches>>

\* DirectCompleted taking every status it does not know for completed
DirectCompletedLoose(status, status_code) ==
    status \notin {"pending", "processing", "failed", "error"}

\* line 716: the completed test of the direct wait loop
DirectCompleted(status, status_code) ==
    status = "completed" \/ status_code = <<100>>

\* DirectFailed for the vendor's failed status only
DirectFailedByVendor(status) == status = "failed"

\* line 759: the statuses that end the direct wait loop as a failed job
DirectFailed(status) == status \in {"failed", "error"}

\* DirectTimedOut with the budget compared strictly
DirectTimedOutStrict(completed, w, max_wait) == ~completed /\ w > max_wait

\* line 777: the timeout test after the loop
DirectTimedOut(completed, w, max_wait) == ~completed /\ w >= max_wait

\* job_status.get('message', 'Job failed')
MessageOf(snapshot) ==
    IF snapshot.message = NoneMsg THEN <<"Job failed">> ELSE snapshot.message

\* lines 702-791: one iteration of the wait loop and, when the loop ends with
\* it, the timeout check that follows the loop
DirectPoll ==
    /\ mode = "direct" /\ epc = "wait"
    /\ waited < EXPORT_MAX_WAIT
    /\ \E response \in PollResponses :
        LET batch == export_batches[bi]
            w == waited + EXPORT_CHECK_INTERVAL
            snapshot == check_job_status(response)
            status_code == snapshot.jobStatus
            status == snapshot.status
            timeout == ExportResult(batch, wait_job_id, EmptyStr, NoneMsg,
                           "Timeout",
                           <<"Job did not complete within ",
                             ToString(EXPORT_MAX_WAIT), " seconds">>,
                           selected_report)
        IN  /\ waited' = w
            /\ job_status' = snapshot
            /\ polls' = polls + 1
            /\ IF DirectCompleted(status, status_code)
               THEN \E dls \in DownloadScripts :
                    LET dl == download_export(batch.company_id, wait_job_id,
                                  EXPORT_OUTPUT_DIR, dls[1], dls[2])
                    IN  /\ job_completed' = TRUE
                        /\ IF dl.success
                           THEN /\ export_results' = Append(export_results,
                                      ExportResult(batch, wait_job_id, dl.filename,
                                          dl.filepath, "Success", NoneMsg,
                                          selected_report))
                                /\ UNCHANGED failed_exports
                           ELSE /\ failed_exports' = Append(failed_exports, batch)
                                /\ export_results' = Append(export_results,
                                      ExportResult(batch, wait_job_id, EmptyStr,
                                          NoneMsg, "Download Failed", dl.filename,
                                          selected_report))
                        /\ dl_outcome' = IF dl.success THEN "ok" ELSE "failed"
                        /\ bi' = bi + 1 /\ epc' = NextBatchPc
               ELSE IF DirectFailed(status)
               THEN LET failed == ExportResult(batch, wait_job_id, EmptyStr,
                                      NoneMsg, "Job Failed", MessageOf(snapshot),
                                      selected_report)
                    IN  /\ IF DirectTimedOut(job_completed, w, EXPORT_MAX_WAIT)
                           THEN /\ failed_exports' = failed_exports \o <<batch, batch>>
                                /\ export_results' = export_results \o <<failed, timeout>>
                           ELSE /\ failed_exports' = Append(failed_exports, batch)
                                /\ export_results' = Append(export_results, failed)
                        /\ UNCHANGED dl_outcome
                        /\ bi' = bi + 1 /\ epc' = NextBatchPc
                        /\ UNCHANGED job_completed
               ELSE IF w < EXPORT_MAX_WAIT
               THEN UNCHANGED <<bi, epc, job_completed, export_results,
                                failed_exports, dl_outcome>>
               ELSE /\ IF DirectTimedOut(job_completed, w, EXPORT_MAX_WAIT)
                       THEN /\ failed_exports' = Append(failed_exports, batch)
                            /\ export_results' = Append(export_results, timeout)
                       ELSE UNCHANGED <<failed_exports, export_results>>
                    /\ UNCHANGED dl_outcome
                    /\ bi' = bi + 1 /\ epc' = NextBatchPc
                    /\ UNCHANGED job_completed
    /\ UNCHANGED <<pullVars, queryVars, mode, export_batches, wait_job_id>>

----------------------------------------------------------------------------
\* utils.py: process_export_batch, called by main.py run_export_phase
\* (lines 339-350), which appends the result and queues the failed batch

report_type_name == "GSTR-2A"

\* lines 551-573: the submission
BatchSubmit ==
    /\ mode = "phase" /\ epc = "submit"
    /\ \E script \in ExportScripts :
        LET batch == export_batches[bi]
            ret == export_gst_report(gst_enabled, report_type_name,
                       batch.company_id, batch.gstin, batch.start_period,
                       batch.end_period, report_format, script)
        IN  IF ~ret.success
            THEN /\ export_results' = Append(export_results,
                        ExportResult(batch, "", EmptyStr, NoneMsg,
                                     "Failed to Create Job", ret.error,
                                     ToString(report_format)))
                 /\ failed_exports' = Append(failed_exports, batch)
                 /\ bi' = bi + 1
                 /\ epc' = NextBatchPc
                 /\ UNCHANGED <<wait_job_id, waited>>
            ELSE /\ wait_job_id' = ret.job_id
                 /\ waited' = 0
                 /\ epc' = "wait"
                 /\ UNCHANGED <<bi, export_results, failed_exports>>
    /\ job_status' = NoSnapshot
    /\ polls' = 0
    /\ dl_outcome' = "none"
    /\ UNCHANGED <<pullVars, queryVars, mode, export_batches, job_completed>>

\* line 586: the statuses that count as completed
BatchCompleted(status) ==
    status \in {"completed", "complete", "success", "successful"}

\* line 607: the statuses that end the wait as a failed job
BatchFailed(status) == status \in {"failed", "error", "cancelled"}

\* lines 576-621: one iteration of the wait loop; the Timeout result when the
\* loop ends with it
BatchPoll ==
    /\ mode = "phase" /\ epc = "wait"
    /\ waited < EXPORT_MAX_WAIT
    /\ \E response \in PollResponses :
        LET batch == export_batches[bi]
            w == waited + EXPORT_CHECK_INTERVAL
            snapshot == check_job_status(response)
            status == snapshot.status
        IN  /\ waited' = w
            /\ job_status' = snapshot
            /\ polls' = polls + 1
            /\ IF BatchCompleted(status)
               THEN \E dls \in DownloadScripts :
                    LET dl == download_export(batch.company_id, wait_job_id,
                                  EXPORT_OUTPUT_DIR, dls[1], dls[2])
                    IN  /\ IF dl.success
                           THEN /\ export_results' = Append(export_results,
                                      ExportResult(batch, wait_job_id, dl.filename,
                                          dl.filepath, "Success", NoneMsg,
                                          ToString(report_format)))
                                /\ UNCHANGED failed_exports
                           ELSE /\ export_results' = Append(export_results,
                                      ExportResult(batch, wait_job_id, EmptyStr,
                                          NoneMsg, "Download Failed", dl.filename,
                                          ToString(report_format)))
                                /\ failed_exports' = Append(failed_exports, batch)
                        /\ dl_outcome' = IF dl.success THEN "ok" ELSE "failed"
                        /\ bi' = bi + 1 /\ epc' = NextBatchPc
               ELSE IF BatchFailed(status)
               THEN /\ export_results' = Append(export_results,
                          ExportResult(batch, wait_job_id, EmptyStr, NoneMsg,
                              "Job Failed", MessageOf(snapshot),
                              ToString(report_format)))
                    /\ failed_exports' = Append(failed_exports, batch)
                    /\ UNCHANGED dl_outcome
                    /\ bi' = bi + 1 /\ epc' = NextBatchPc
               ELSE IF w < EXPORT_MAX_WAIT
               THEN UNCHANGED <<bi, epc, export_results, failed_exports, dl_outcome>>
               ELSE /\ export_results' = Append(export_results,
                          ExportResult(batch, wait_job_id, EmptyStr, NoneMsg,
                              "Timeout",
                              <<"Job did not complete within ",
                                ToString(EXPORT_MAX_WAIT), " seconds">>,
                              ToString(report_format)))
                    /\ failed_exports' = Append(failed_exports, batch)
                    /\ UNCHANGED dl_outcome
                    /\ bi' = bi + 1 /\ epc' = NextBatchPc
    /\ UNCHANGED <<pullVars, queryVars, mode, export_batches, wait_job_id, job_completed>>

NextExport ==
    \/ DirectSubmit
    \/ DirectPoll
    \/ BatchSubmit
    \/ BatchPoll

SpecExport == InitExport /\ [][NextExport]_vars

----------------------------------------------------------------------------
\* main.py: run_export_phase, the retry pass over the failed batches that
\* follows the loop over process_export_batch

EXPORT_RETRY_TIMEOUT == 180
EXPORT_RETRY_FAILED == TRUE
\* line 383: check_interval = 10
retry_check_interval == 10

\* lines 358-359: the pass is entered when a batch failed; bi then counts the
\* failed batches
PhaseRetryBegin ==
    /\ mode = "phase" /\ epc = "done"
    /\ IF EXPORT_RETRY_FAILED /\ failed_exports # <<>>
       THEN epc' = "retry_submit" /\ bi' = 1
       ELSE epc' = "end" /\ UNCHANGED bi
    /\ polls' = 0
    /\ dl_outcome' = "none"
    /\ job_status' = NoSnapshot
    /\ UNCHANGED <<pullVars, queryVars, mode, export_batches, wait_job_id, waited,
                   job_completed, export_results, failed_exports>>

\* lines 364-378 and 416-417: the submission of a retry
PhaseRetrySubmit ==
    /\ mode = "phase" /\ epc = "retry_submit"
    /\ IF bi > Len(failed_exports)
       THEN /\ epc' = "end"
            /\ UNCHANGED <<bi, wait_job_id, waited>>
       ELSE \E script \in ExportScripts :
            LET batch == failed_exports[bi]
                ret == export_gst_report(gst_enabled, report_type_name,
                           batch.company_id, batch.gstin, batch.start_period,
                           batch.end_period, report_format, script)
            IN  IF ret.success /\ TruthyT(ret.job_id)
                THEN /\ wait_job_id' = ret.job_id
                     /\ waited' = 0
                     /\ epc' = "retry_wait"
                     /\ UNCHANGED bi
                ELSE /\ bi' = bi + 1
                     /\ UNCHANGED <<epc, wait_job_id, waited>>
    /\ polls' = 0
    /\ dl_outcome' = "none"
    /\ job_status' = NoSnapshot
    /\ UNCHANGED <<pullVars, queryVars, mode, export_batches, job_completed,
                   export_results, failed_exports>>

\* MarkRetried recording the retry as a result of its own
MarkRetriedAppended(rs, batch, dl, job_id) ==
    Append(rs, [Company |-> batch.company_name, GSTIN |-> batch.gstin,
                Period |-> PeriodRange(batch), Job_ID |-> job_id,
                Filename |-> dl.filename, Filepath |-> dl.filepath,
                Status |-> "Success (Retry)", Error |-> NoneMsg,
                Report_Type |-> ToString(report_format)])

\* lines 401-408: the first result of the batch's company and period,
\* updated in place
RECURSIVE MarkRetried(_, _, _, _)
MarkRetried(rs, batch, dl, job_id) ==
    IF rs = <<>> THEN <<>>
    ELSE IF rs[1].Company = batch.company_name /\ rs[1].Period = PeriodRange(batch)
    THEN <<[rs[1] EXCEPT !.Status = "Success (Retry)", !.Filename = dl.filename,
                         !.Filepath = dl.filepath, !.Job_ID = job_id]>> \o Tail(rs)
    ELSE <<rs[1]>> \o MarkRetried(Tail(rs), batch, dl, job_id)

\* RetryBudgetLeft with the budget itself still inside the loop
RetryBudgetLeftInclusive(w) == w <= EXPORT_RETRY_TIMEOUT

\* line 386: while waited < max_wait
RetryBudgetLeft(w) == w < EXPORT_RETRY_TIMEOUT

\* lines 386-414: one iteration of the wait loop of a retry
PhaseRetryPoll ==
    /\ mode = "phase" /\ epc = "retry_wait"
    /\ RetryBudgetLeft(waited)
    /\ \E response \in PollResponses :
        LET batch == failed_exports[bi]
            w == waited + retry_check_interval
            snapshot == check_job_status(response)
            status == snapshot.status
        IN  /\ waited' = w
            /\ job_status' = snapshot
            /\ polls' = polls + 1
            /\ IF BatchCompleted(status)
               THEN \E dls \in DownloadScripts :
                    LET dl == download_export(batch.company_id, wait_job_id,
                                  EXPORT_OUTPUT_DIR, dls[1], dls[2])
                    IN  /\ export_results' =
                              IF dl.success
                              THEN MarkRetried(export_results, batch, dl, wait_job_id)
                              ELSE export_results
                        /\ dl_outcome' = IF dl.success THEN "ok" ELSE "failed"
                        /\ bi' = bi + 1 /\ epc' = "retry_submit"
               ELSE IF status \in {"failed", "error"}
               THEN /\ bi' = bi + 1 /\ epc' = "retry_submit"
                    /\ UNCHANGED <<export_results, dl_outcome>>
               ELSE IF RetryBudgetLeft(w)
               THEN UNCHANGED <<bi, epc, export_results, dl_outcome>>
               ELSE /\ bi' = bi + 1 /\ epc' = "retry_submit"
                    /\ UNCHANGED <<export_results, dl_outcome>>
    /\ UNCHANGED <<pullVars, queryVars, mode, export_batches, wait_job_id,
                   job_completed, failed_exports>>

\* the batches of one run of run_export_phase
PhaseBatches == 1
InitPhase == InitExport /\ mode = "phase" /\ Len(export_batches) <= PhaseBatches

NextPhase ==
    \/ BatchSubmit
    \/ BatchPoll
    \/ PhaseRetryBegin
    \/ PhaseRetrySubmit
    \/ PhaseRetryPoll

SpecPhase == InitPhase /\ [][NextPhase]_vars

\* utils.py 453-466: prepare_export_batches groups the successful pulls by
\* (Company ID, Company Name, GSTIN); two rows of the sheet that share a
\* company name give two batches of that name, here with the same periods
SameNameBatches ==
    << [company_id |-> <<"oc-", "3372">>, company_name |-> <<"Alpha">>,
        gstin |-> <<"19AADCG0737G1ZQ">>,
        start_period |-> <<2024, 4>>, end_period |-> <<2024, 6>>],
       [company_id |-> <<"oc-", "88">>, company_name |-> <<"Alpha">>,
        gstin |-> <<"27AADCG0737G1Z9">>,
        start_period |-> <<2024, 4>>, end_period |-> <<2024, 6>>] >>

InitPhaseSameName ==
    /\ companies = <<>> /\ months = <<>> /\ report_types = <<>>
    /\ skip_toggle = TRUE
    /\ gst_enabled = {"GSTR-2A"}
    /\ pc = "idle"
    /\ ci = 1 /\ mi = 1 /\ ri = 1
    /\ company_not_connected = FALSE
    /\ not_connected_error = NoneMsg
    /\ current_operation = 0
    /\ results = <<>>
    /\ failed_operations = <<>>
    /\ ro = 1 /\ attempt = 1
    /\ retry_results = <<>>
    /\ saved = <<>>
    /\ log = <<>>
    /\ faults = 0
    /\ mode = "phase"
    /\ export_batches = SameNameBatches
    /\ bi = 1 /\ epc = "submit"
    /\ wait_job_id = NoneT /\ waited = 0 /\ job_completed = FALSE
    /\ job_status = NoSnapshot
    /\ export_results = <<>> /\ failed_exports = <<>>
    /\ polls = 0 /\ dl_outcome = "none"
    /\ status_input = NoResp
    /\ SubmitIdle
    /\ DownloadIdle

SpecPhaseSameName == InitPhaseSameName /\ [][NextPhase]_vars

----------------------------------------------------------------------------
\* The inputs of run_direct_export (main.py 536-626): a single company typed
\* at the prompt, the companies of a spreadsheet (excel_handler.py
\* read_companies), or several companies typed one after the other

\* str.strip(): the whitespace tokens at both ends go
RECURSIVE StripLeft(_)
StripLeft(s) == IF s # <<>> /\ s[1] = " " THEN StripLeft(Tail(s)) ELSE s

RECURSIVE StripRight(_)
StripRight(s) ==
    IF s # <<>> /\ s[Len(s)] = " " THEN StripRight(SubSeq(s, 1, Len(s) - 1)) ELSE s

Strip(s) == StripRight(StripLeft(s))

\* str.upper() and str.lower(), token by token
UpperToken(t) ==
    CASE t = "27aadcg0737g1z9" -> "27AADCG0737G1Z9"
      [] t = "oc-" -> "OC-"
      [] t = "done" -> "DONE"
      [] t = "Done" -> "DONE"
      [] OTHER -> t

LowerToken(t) ==
    CASE t = "27AADCG0737G1Z9" -> "27aadcg0737g1z9"
      [] t = "OC-" -> "oc-"
      [] t = "DONE" -> "done"
      [] t = "Done" -> "done"
      [] OTHER -> t

Upper(s) == [i \in 1..Len(s) |-> UpperToken(s[i])]
Lower(s) == [i \in 1..Len(s) |-> LowerToken(s[i])]

\* excel_handler.py 71: str.replace('.0', '', regex=False)
RemoveDotZero(s) == SelectSeq(s, LAMBDA t : t # ".0")

\* the cells of a sheet after astype(str): a numeric company id reads
\* '3372.0'; an empty GSTIN cell is NaN, the token NoneT here
SheetIds == { <<"3372", ".0">>, <<"oc-", "3372">>, <<" ", "3372">>, EmptyStr }
SheetGstins == { <<"27aadcg0737g1z9">>, <<"27AADCG0737G1Z9", " ">>, NoneMsg }
SheetRows == [Company_ID : SheetIds, GSTIN : SheetGstins]
\* the rows of one sheet
SheetLen == 2
Sheets == UNION { [1..n -> SheetRows] : n \in 1..SheetLen }

\* excel_handler.py 64-78: rows without GSTIN dropped, the company id
\* stripped and rid of '.0', the GSTIN stripped and uppercased
RECURSIVE read_companies(_)
read_companies(sheet) ==
    IF sheet = <<>> THEN <<>>
    ELSE IF sheet[1].GSTIN = NoneMsg THEN read_companies(Tail(sheet))
    ELSE <<[Company_ID |-> RemoveDotZero(Strip(sheet[1].Company_ID)),
            Company_Name |-> <<"Alpha">>,
            GSTIN |-> Upper(Strip(sheet[1].GSTIN))]>>
         \o read_companies(Tail(sheet))

\* what the user types at a prompt, before input().strip()
TypedIds == { <<"3372">>, <<"oc-", "3372">>, <<" ", "3372", " ">>, EmptyStr }
TypedGstins == { <<"27AADCG0737G1Z9">>, <<"27aadcg0737g1z9">>, <<" ", "27AADCG0737G1Z9">> }
TypedDone == { <<"done">>, <<"Done">>, <<" ", "DONE">> }
\* companies typed in one run
TypedEntries == 2

\* main.py 552-553, 583-584, 617-618: the prefix of the company id
WithPrefix(company_id) ==
    IF company_id # EmptyStr /\ company_id[1] # "oc-"
    THEN <<"oc-">> \o company_id
    ELSE company_id

\* main.py 555-561, 586-592, 620-626: the batch of one company
InputBatch(company_id, company_name, gstin) ==
    [company_id |-> WithPrefix(company_id), company_name |-> company_name,
     gstin |-> gstin, start_period |-> <<2024, 4>>, end_period |-> <<2024, 6>>]

\* main.py 628-630 and 673: the loop over the batches starts unless there are none
AfterInput(batches) == IF batches = <<>> THEN "end" ELSE "submit"

intakeFrame == <<pullVars, queryVars, mode, bi, wait_job_id, waited, job_completed,
                 job_status, export_results, failed_exports, polls, dl_outcome>>

\* main.py 540-561: choice '1'
EnterSingle ==
    /\ mode = "direct" /\ epc = "choice"
    /\ \E id \in TypedIds, g \in TypedGstins :
        /\ export_batches' = <<InputBatch(Strip(id), <<"Alpha">>, Strip(g))>>
        /\ epc' = "submit"
    /\ UNCHANGED intakeFrame

\* main.py 563-595: choice '2'
LoadSheet ==
    /\ mode = "direct" /\ epc = "choice"
    /\ \E sheet \in Sheets :
        LET rows == read_companies(sheet)
            batches == [i \in 1..Len(rows) |->
                           InputBatch(rows[i].Company_ID, rows[i].Company_Name,
                                      rows[i].GSTIN)]
        IN  /\ export_batches' = batches
            /\ epc' = AfterInput(batches)
    /\ UNCHANGED intakeFrame

\* main.py 597-604: choice '3'
BeginMultiple ==
    /\ mode = "direct" /\ epc = "choice"
    /\ epc' = "entries"
    /\ UNCHANGED <<export_batches, intakeFrame>>

\* main.py 606-627: one turn of the loop of choice '3'
EnterCompany ==
    /\ mode = "direct" /\ epc = "entries"
    /\ \/ \E id \in TypedIds, g \in TypedGstins :
            /\ Len(export_batches) < TypedEntries
            /\ Lower(Strip(id)) # <<"done">>
            /\ export_batches' = Append(export_batches,
                                   InputBatch(Strip(id), <<"Alpha">>, Strip(g)))
            /\ UNCHANGED epc
       \/ \E id \in TypedDone :
            /\ Lower(Strip(id)) = <<"done">>
            /\ epc' = AfterInput(export_batches)
            /\ UNCHANGED export_batches
    /\ UNCHANGED intakeFrame

InitIntake ==
    /\ companies = <<>> /\ months = <<>> /\ report_types = <<>>
    /\ skip_toggle = TRUE
    /\ gst_enabled = {"GSTR-2A"}
    /\ pc = "idle"
    /\ ci = 1 /\ mi = 1 /\ ri = 1
    /\ company_not_connected = FALSE
    /\ not_connected_error = NoneMsg
    /\ current_operation = 0
    /\ results = <<>>
    /\ failed_operations = <<>>
    /\ ro = 1 /\ attempt = 1
    /\ retry_results = <<>>
    /\ saved = <<>>
    /\ log = <<>>
    /\ faults = 0
    /\ mode = "direct"
    /\ export_batches = <<>>
    /\ bi = 1 /\ epc = "choice"
    /\ wait_job_id = NoneT /\ waited = 0 /\ job_completed = FALSE
    /\ job_status = NoSnapshot
    /\ export_results = <<>> /\ failed_exports = <<>>
    /\ polls = 0 /\ dl_outcome = "none"
    /\ status_input = NoResp
    /\ SubmitIdle
    /\ DownloadIdle

NextIntake ==
    \/ EnterSingle
    \/ LoadSheet
    \/ BeginMultiple
    \/ EnterCompany
    \/ DirectSubmit
    \/ DirectPoll

SpecIntake == InitIntake /\ [][NextIntake]_vars

----------------------------------------------------------------------------
\* A single call of check_job_status

StatusCodes ==
    { <<c>> : c \in (-MaxCode..MaxCode) \cup {7, 50, 98, 99, 100, 101} }
        \cup { <<>> }

StatusInputs ==
    { JobResp(js, url, message) :
        js \in StatusCodes, url \in {NoneMsg, DownloadUrl},
        message \in {NoneMsg, <<"vendor message">>} }
    \cup { HttpResp(404), HttpResp(401), HttpResp(500), BadJsonResp, TimeoutResp }

InitQuery ==
    /\ companies = <<>> /\ months = <<>> /\ report_types = <<>>
    /\ skip_toggle = TRUE
    /\ gst_enabled = {"GSTR-2A"}
    /\ pc = "idle"
    /\ ci = 1 /\ mi = 1 /\ ri = 1
    /\ company_not_connected = FALSE
    /\ not_connected_error = NoneMsg
    /\ current_operation = 0
    /\ results = <<>>
    /\ failed_operations = <<>>
    /\ ro = 1 /\ attempt = 1
    /\ retry_results = <<>>
    /\ saved = <<>>
    /\ log = <<>>
    /\ faults = 0
    /\ mode = "query" /\ export_batches = <<>> /\ bi = 0 /\ epc = "query"
    /\ wait_job_id = "J123" /\ waited = 0 /\ job_completed = FALSE
    /\ job_status = NoSnapshot
    /\ export_results = <<>> /\ failed_exports = <<>>
    /\ polls = 0 /\ dl_outcome = "none"
    /\ status_input \in StatusInputs
    /\ SubmitIdle
    /\ DownloadIdle

\* api_client.py 249-304: the call
QueryStatus ==
    /\ mode = "query" /\ epc = "query"
    /\ job_status' = check_job_status(status_input)
    /\ epc' = "queried"
    /\ polls' = polls + 1
    /\ UNCHANGED <<pullVars, queryVars, mode, export_batches, bi, wait_job_id,
                   waited, job_completed, export_results, failed_exports,
                   dl_outcome>>

NextQuery == QueryStatus

SpecQuery == InitQuery /\ [][NextQuery]_vars

----------------------------------------------------------------------------
\* A single submission call: pull_gst_report and export_gst_report, each
\* called once with the same report type against the same vendor answers

\* what the vendor may answer to one POST
SubmitResponses ==
    { Ok("J123"),
      Http(200, TRUE, NoneT, NoneT, NoneMsg),
      Http(200, TRUE, "", NoneT, NoneMsg),
      Http(200, FALSE, NoneT, NoneT, NoneMsg),
      H400("2000", <<"OTP pending">>),
      H400("100", <<"Bad period">>),
      H400("2017", <<"GSTIN ", NOT_CONNECTED>>),
      H400(NoneT, NoneMsg),
      Status(401), Status(403), Status(404), Status(429),
      Status(500), Status(502), Status(503),
      Timeout, ConnError, OtherError }

\* the answers to the POSTs of one call, as many as a call can make
SubmitScripts == [1..API_RETRY_COUNT -> SubmitResponses]

\* an enabled report type, a disabled one, one that GST_REPORTS does not have
SubmitReportTypes == {"GSTR-2A", "GSTR-1", "GSTR-9"}

InitSubmit ==
    /\ companies = <<>> /\ months = <<>> /\ report_types = <<>>
    /\ skip_toggle = TRUE
    /\ gst_enabled = {"GSTR-2A"}
    /\ pc = "idle"
    /\ ci = 1 /\ mi = 1 /\ ri = 1
    /\ company_not_connected = FALSE
    /\ not_connected_error = NoneMsg
    /\ current_operation = 0
    /\ results = <<>>
    /\ failed_operations = <<>>
    /\ ro = 1 /\ attempt = 1
    /\ retry_results = <<>>
    /\ saved = <<>>
    /\ log = <<>>
    /\ faults = 0
    /\ mode = "submit" /\ export_batches = <<>> /\ bi = 0 /\ epc = "idle"
    /\ wait_job_id = NoneT /\ waited = 0 /\ job_completed = FALSE
    /\ job_status = NoSnapshot
    /\ export_results = <<>> /\ failed_exports = <<>>
    /\ polls = 0 /\ dl_outcome = "none"
    /\ status_input = NoResp
    /\ \E report_type \in SubmitReportTypes, script \in SubmitScripts :
          /\ report_type # "GSTR-2A" => script = [k \in 1..API_RETRY_COUNT |-> Ok("J123")]
          /\ submit_input = [report_type |-> report_type, script |-> script]
    /\ pull_ret = NoRet
    /\ export_ret = NoRet
    /\ DownloadIdle

\* the company the call is made for
SubmitCompany == { c \in CompanyPool : c.Company_Name = "Alpha" }

\* api_client.py 32-149: one call of pull_gst_report
SubmitPull ==
    /\ mode = "submit" /\ pull_ret = NoRet
    /\ \E company \in SubmitCompany :
          pull_ret' = pull_gst_report(gst_enabled, submit_input.report_type,
                          CompanyId(company), company.GSTIN, FirstPeriod,
                          submit_input.script)
    /\ UNCHANGED <<pullVars, exportVars, status_input, submit_input, export_ret, download_input, dl_ret>>

\* api_client.py 151-247: one call of export_gst_report
SubmitExport ==
    /\ mode = "submit" /\ export_ret = NoRet
    /\ \E company \in SubmitCompany :
          export_ret' = export_gst_report(gst_enabled, submit_input.report_type,
                            CompanyId(company), company.GSTIN, FirstPeriod,
                            FirstPeriod, report_format, submit_input.script)
    /\ UNCHANGED <<pullVars, exportVars, status_input, submit_input, pull_ret, download_input, dl_ret>>

NextSubmit == SubmitPull \/ SubmitExport

\* run_pull_operation on a sheet with two rows of one Company Name: two
\* registrations of one company, each with its own Company ID and GSTIN
SameNamePool ==
    { [Company_ID |-> <<"3372">>, Company_Name |-> "Alpha",
       GSTIN |-> "19AADCG0737G1ZQ"],
      [Company_ID |-> <<"oc-", "88">>, Company_Name |-> "Alpha",
       GSTIN |-> "27AADCG0737G1Z9"] }

\* the submissions the vendor may fail in such a run
SameNameFaults == 5

InitSameName ==
    /\ ExportIdle
    /\ status_input = NoResp
    /\ SubmitIdle
    /\ DownloadIdle
    /\ companies \in { s \in [1..2 -> SameNamePool] : s[1] # s[2] }
    /\ months = generate_month_range(FirstPeriod, FirstPeriod)
    /\ report_types = <<"GSTR-2A">>
    /\ skip_toggle \in BOOLEAN
    /\ gst_enabled = {"GSTR-2A"}
    /\ pc = "company"
    /\ ci = 1 /\ mi = 1 /\ ri = 1
    /\ company_not_connected = FALSE
    /\ not_connected_error = NoneMsg
    /\ current_operation = 0
    /\ results = <<>>
    /\ failed_operations = <<>>
    /\ ro = 1 /\ attempt = 1
    /\ retry_results = <<>>
    /\ saved = <<>>
    /\ log = <<>>
    /\ faults = MaxFaults - SameNameFaults

\* smart_retry_with_backoff on its own: the operations a queue may hold
RetryOpPool ==
    LET company == CHOOSE c \in CompanyPool : c.Company_Name = "Alpha"
    IN  { FailedOp("GSTR-2A", CompanyId(company), company.Company_Name,
                   company.GSTIN, FirstPeriod, <<"Request timeout">>),
          FailedOp("GSTR-2B", CompanyId(company), company.Company_Name,
                   company.GSTIN, FirstPeriod,
                   <<"GSTR-2B", " is not yet enabled. Waiting for API documentation.">>),
          ExportOp("GSTR-2A", CompanyId(company), company.Company_Name,
                   company.GSTIN, FirstPeriod, FirstPeriod,
                   <<"Request timeout">>) }

InitRetry ==
    /\ ExportIdle
    /\ status_input = NoResp
    /\ SubmitIdle
    /\ DownloadIdle
    /\ companies = <<>> /\ months = <<>> /\ report_types = <<>>
    /\ skip_toggle = TRUE
    /\ gst_enabled = {"GSTR-2A"}
    /\ pc = "retry"
    /\ ci = 1 /\ mi = 1 /\ ri = 1
    /\ company_not_connected = FALSE
    /\ not_connected_error = NoneMsg
    /\ current_operation = 0
    /\ results = <<>>
    /\ failed_operations \in {<<>>} \cup SeqsUpTo(RetryOpPool, MaxQueue)
    /\ ro = 1 /\ attempt = 1
    /\ retry_results = <<>>
    /\ saved = <<>>
    /\ log = <<>>
    /\ faults = 0

NextRetry == RetryAttempt

SpecRetry == InitRetry /\ [][NextRetry]_vars

SpecSubmit == InitSubmit /\ [][NextSubmit]_vars

----------------------------------------------------------------------------
\* A single call of download_export

\* download URLs by their last path segment: with the extension, with
\* '.xlsx' inside the segment, without it, and with no segment at all
DownloadUrls ==
    { <<"https://bucket/exports/", seg>> :
        seg \in {"report.xlsx", "report.xlsx.tmp", "download", ""} }

\* what the vendor answers to the re-query of the status
DownloadStatusInputs ==
    { JobResp(js, url, NoneMsg) :
        js \in {<<100>>, <<0>>, <<1>>, <<-1>>, <<>>},
        url \in {NoneMsg, EmptyStr} \cup DownloadUrls }
    \cup { HttpResp(500), BadJsonResp, TimeoutResp }

\* content-disposition headers: none, one without a filename, one with
\* filename=, one with an empty filename=
DispHeaders ==
    { NoneMsg,
      <<"inline">>,
      <<"attachment; ", "filename=", "export.xlsx">>,
      <<"attachment; ", "filename=">> }

\* what the vendor answers to the GET of the file: size is the size of the
\* file found on disk after the body was written, -1 when none is found
DownloadFileInputs ==
    { FileResp(disp, size) : disp \in DispHeaders, size \in {-1, 0, 2048} }
    \cup { HttpResp(404), HttpResp(403), TimeoutResp }

InitDownload ==
    /\ companies = <<>> /\ months = <<>> /\ report_types = <<>>
    /\ skip_toggle = TRUE
    /\ gst_enabled = {"GSTR-2A"}
    /\ pc = "idle"
    /\ ci = 1 /\ mi = 1 /\ ri = 1
    /\ company_not_connected = FALSE
    /\ not_connected_error = NoneMsg
    /\ current_operation = 0
    /\ results = <<>>
    /\ failed_operations = <<>>
    /\ ro = 1 /\ attempt = 1
    /\ retry_results = <<>>
    /\ saved = <<>>
    /\ log = <<>>
    /\ faults = 0
    /\ mode = "download" /\ export_batches = <<>> /\ bi = 0 /\ epc = "idle"
    /\ wait_job_id = "J123" /\ waited = 0 /\ job_completed = FALSE
    /\ job_status = NoSnapshot
    /\ export_results = <<>> /\ failed_exports = <<>>
    /\ polls = 0 /\ dl_outcome = "none"
    /\ status_input = NoResp
    /\ SubmitIdle
    /\ download_input \in DownloadStatusInputs \X DownloadFileInputs
    /\ dl_ret = NoDlRet

\* api_client.py 306-391: the call
Download ==
    /\ mode = "download" /\ dl_ret = NoDlRet
    /\ dl_ret' = download_export(<<"oc-", "3372">>, wait_job_id, EXPORT_OUTPUT_DIR,
                                 download_input[1], download_input[2])
    /\ UNCHANGED <<pullVars, exportVars, status_input, submit_input, pull_ret,
                   export_ret, download_input>>

NextDownload == Download

SpecDownload == InitDownload /\ [][NextDownload]_vars

NextPull ==
    \/ CompanyBegin
    \/ MonthBegin
    \/ PullUnit
    \/ AfterLoop
    \/ RetryAttempt
    \/ UpdateResults
    \/ SaveResults

SpecPull == InitPull /\ [][NextPull]_vars

SpecSameName == InitSameName /\ [][NextPull]_vars

\* config.py 193: runs with SKIP_NOT_CONNECTED_COMPANIES = False
\* units of work of such a run
ToggleOffUnits == 2
InitToggleOff == InitPull /\ skip_toggle = FALSE /\ total_operations <= ToggleOffUnits

SpecToggleOff == InitToggleOff /\ [][NextPull]_vars

----------------------------------------------------------------------------
\* utils.py: prepare_export_batches, on the results that run_pull_operation
\* saved (main.py 908-919, 313-326)

\* line 451: pull_results_df[pull_results_df['Status'] == 'Success']
SuccessfulPulls(rs) == SelectSeq(rs, LAMBDA r : r.Status = "Success")

GroupKey(r) == <<r.Company_ID, r.Company_Name, r.GSTIN>>

\* the order of the texts of the company ids, which is the order groupby
\* yields its groups in
CompanyIdRank(id) ==
    CASE id = <<"oc-", "3372">> -> 1
      [] id = <<"oc-", "77">> -> 2
      [] id = <<"oc-", "88">> -> 3
      [] OTHER -> 4

RECURSIVE SortedKeys(_)
SortedKeys(S) ==
    IF S = {} THEN <<>>
    ELSE LET k == CHOOSE x \in S :
                     \A y \in S : CompanyIdRank(x[1]) <= CompanyIdRank(y[1])
         IN  <<k>> \o SortedKeys(S \ {k})

\* line 456: sorted(group['Return Period'].unique())
RECURSIVE SortedPeriods(_)
SortedPeriods(S) ==
    IF S = {} THEN <<>>
    ELSE LET p == CHOOSE x \in S : \A y \in S : PeriodLE(x, y)
         IN  <<p>> \o SortedPeriods(S \ {p})

\* lines 455-465: the batch of one group
FullRangeBatch(key, rs) ==
    LET periods == SortedPeriods({ rs[i].Return_Period :
                        i \in { j \in 1..Len(rs) : GroupKey(rs[j]) = key } })
    IN  [company_id |-> key[1], company_name |-> key[2], gstin |-> key[3],
         start_period |-> periods[1], end_period |-> periods[Len(periods)],
         periods |-> periods]

\* lines 469-477: the batch of one row
MonthlyBatch(row) ==
    [company_id |-> row.Company_ID, company_name |-> row.Company_Name,
     gstin |-> row.GSTIN, start_period |-> row.Return_Period,
     end_period |-> row.Return_Period, periods |-> <<row.Return_Period>>]

prepare_export_batches(pull_results, strategy) ==
    LET successful_pulls == SuccessfulPulls(pull_results)
        keys == SortedKeys({ GroupKey(successful_pulls[i]) :
                               i \in 1..Len(successful_pulls) })
    IN  IF strategy = "full_range"
        THEN [i \in 1..Len(keys) |-> FullRangeBatch(keys[i], successful_pulls)]
        ELSE IF strategy = "monthly"
        THEN [i \in 1..Len(successful_pulls) |-> MonthlyBatch(successful_pulls[i])]
        ELSE <<>>

\* main.py 310-326: run_export_phase reads the saved results and prepares the
\* batches; it returns when there are none
PrepareExport ==
    /\ mode = "none" /\ pc = "done"
    /\ \E strategy \in {"full_range", "monthly"} :
        /\ export_batches' = prepare_export_batches(saved, strategy)
        /\ epc' = IF export_batches' = <<>> THEN "end" ELSE "submit"
    /\ mode' = "phase"
    /\ bi' = 1
    /\ UNCHANGED <<pullVars, queryVars, wait_job_id, waited, job_completed,
                   job_status, export_results, failed_exports, polls, dl_outcome>>

\* units of work of a pull that is followed by the export phase
PrepareUnits == 2
InitPrepare == InitPull /\ total_operations <= PrepareUnits

NextPrepare ==
    \/ NextPull
    \/ PrepareExport

SpecPrepare == InitPrepare /\ [][NextPrepare]_vars

----------------------------------------------------------------------------
\* Properties of run_pull_operation

\* the unit (company, month, report type) that the k-th result belongs to,
\* units counted in processing order
UnitC(k) == ((k - 1) \div (Len(months) * Len(report_types))) + 1
UnitM(k) == (((k - 1) \div Len(report_types)) % Len(months)) + 1
UnitR(k) == ((k - 1) % Len(report_types)) + 1

ValidCompany(c) ==
    CompanyId(companies[c]) # EmptyStr /\ companies[c].GSTIN # ""

\* the positions in the history of the main-loop submissions for company c
MainPulls(c) ==
    { i \in 1..Len(log) :
        log[i].ev = "pull" /\ log[i].ph = "main" /\ log[i].c = c }

\* the main-loop submissions for company c in months before m that returned
\* the not-connected reason
Triggers(c, m) == { i \in MainPulls(c) : log[i].nc /\ log[i].m < m }

First(S) == CHOOSE i \in S : \A j \in S : i <= j

ResultOfUnit(r, k) ==
    /\ r.Report_Type = report_types[UnitR(k)]
    /\ r.Return_Period = months[UnitM(k)]
    /\ r.Company_Name = companies[UnitC(k)].Company_Name
    /\ r.GSTIN = IF companies[UnitC(k)].GSTIN # ""
                 THEN companies[UnitC(k)].GSTIN ELSE "Missing"

\* C1: when run_pull_operation reaches the save step, results holds exactly
\* one entry per (company, period, report type): as many entries as
\* companies x periods x report types, the k-th entry being the entry of the
\* k-th unit; companies without Company ID or GSTIN and not-connected
\* companies included.
C1_OneResultPerUnit ==
    pc = "save" =>
        /\ Len(results) = Len(companies) * Len(months) * Len(report_types)
        /\ \A k \in 1..Len(results) : ResultOfUnit(results[k], k)

\* a run at the save step with a company without Company ID and a company
\* that was found not connected
C1_Witness ==
    /\ pc = "save"
    /\ Len(results) >= 4
    /\ \E c \in 1..Len(companies) : ~ValidCompany(c)
    /\ \E k \in 1..Len(results) :
          /\ results[k].Status = "Skipped"
          /\ Contains(results[k].Error_Message, NOT_CONNECTED)

\* C2: with the skip toggle on, once a pull for a company returned the
\* not-connected reason, every unit of every later period of that company is
\* recorded as 'Skipped', with the error message of the unit that triggered
\* the flag: the first pull for the company that returned the reason.
C2_LaterPeriodsSkipped ==
    skip_toggle =>
        \A k \in 1..Len(results) :
            Triggers(UnitC(k), UnitM(k)) # {} =>
                /\ results[k].Status = "Skipped"
                /\ results[k].Error_Message =
                       log[First(Triggers(UnitC(k), UnitM(k)))].err

\* C3: with the skip toggle on, after a pull for a company returned the
\* not-connected reason, the main loop makes no further submission with
\* network requests for that company.
C3_NoCallAfterNotConnected ==
    skip_toggle =>
        \A i, j \in 1..Len(log) :
            ~ ( /\ i < j
                /\ log[i].ev = "pull" /\ log[i].ph = "main" /\ log[i].nc
                /\ log[j].ev = "pull" /\ log[j].ph = "main"
                /\ log[j].c = log[i].c
                /\ log[j].n > 0 )

\* C4: the not-connected short-circuit is scoped to one company: every
\* company starts its months with the flag reset, and when the main loop has
\* ended a unit of a valid company has gone without a submission only when a
\* submission of that same company, in an earlier month, returned the
\* not-connected reason.
C4_ShortCircuitPerCompany ==
    /\ (pc = "month" /\ mi = 1) => ~company_not_connected
    /\ pc = "after_loop" => \A k \in 1..Len(results) :
          ( /\ ValidCompany(UnitC(k))
            /\ ~ \E i \in MainPulls(UnitC(k)) :
                    log[i].m = UnitM(k) /\ log[i].r = UnitR(k) )
          => (skip_toggle /\ Triggers(UnitC(k), UnitM(k)) # {})

\* a finished run where a company was cut short as not connected and the
\* company after it had every unit submitted
C4_Witness ==
    /\ pc = "done"
    /\ \E c \in 1..Len(companies), d \in 1..Len(companies) :
          /\ c < d
          /\ \E k \in 1..Len(results) :
                UnitC(k) = c /\ Triggers(c, UnitM(k)) # {}
                /\ results[k].Status = "Skipped"
          /\ ValidCompany(d)
          /\ \A m \in 1..Len(months), r \in 1..Len(report_types) :
                \E i \in MainPulls(d) : log[i].m = m /\ log[i].r = r

\* the steps one company can take in the main loop: the head of the company
\* loop, a head of the month loop per month and one past the last, the units
PerCompany == 2 + Len(months) * (2 + Len(report_types))

\* an upper bound on the steps the main loop has left
MainLeft ==
    LET n == Len(companies)
        M == Len(months)
        R == Len(report_types)
    IN  CASE pc = "company" -> (n - ci + 1) * PerCompany + 1
          [] pc = "month" ->
                (n - ci) * PerCompany + 1 + (M - mi + 1) * (1 + R) + 1
          [] pc = "unit" ->
                (n - ci) * PerCompany + 1 + (M - mi) * (1 + R) + 1 + (R - ri + 1)
          [] OTHER -> 0

\* an upper bound on the steps run_pull_operation has left; no vendor answer
\* enters it
StepsLeft ==
    CASE pc \in {"company", "month", "unit"} ->
            MainLeft + 3 * total_operations + 4
      [] pc = "after_loop" -> 3 * total_operations + 4
      [] pc = "retry" ->
            (Len(failed_operations) - ro + 1) * max_attempts - (attempt - 1) + 3
      [] pc = "update" -> 2
      [] pc = "save" -> 1
      [] OTHER -> 0

\* C5: whatever the vendor answers, run_pull_operation comes to its end:
\* every step of the run, failed submissions and failed retries included,
\* lowers a bound on the steps left that no vendor answer can raise and that
\* reaches zero only at the end, so no unit holds the run up for ever; and
\* the run ends with one saved result per requested unit.
C5_BatchCompletes ==
    /\ [][StepsLeft' < StepsLeft]_vars
    /\ [](StepsLeft >= 0 /\ (StepsLeft = 0 <=> pc = "done"))
    /\ [](pc = "done" =>
            Len(saved) = Len(companies) * Len(months) * Len(report_types))

\* a finished run in which every unit failed, every retry included
C5_Witness ==
    /\ pc = "done"
    /\ Len(saved) >= 2
    /\ \A k \in 1..Len(saved) : saved[k].Status = "Failed"
    /\ \E i \in 1..Len(log) :
          log[i].ev = "pull" /\ log[i].ph = "retry" /\ log[i].n = API_RETRY_COUNT

\* a main-loop submission that got HTTP 400 with a code other than 2000 and
\* 100: one POST, the reason built from the code and the message of the answer
FatalAnswer(e) ==
    /\ e.ev = "pull" /\ e.ph = "main"
    /\ ~e.ok /\ e.n = 1
    /\ e.err[1] = "Error "

\* C16: a unit of run_pull_operation whose submission got a fatal-per-unit
\* answer after a single request is recorded as 'Failed' and appended to the
\* retry queue.
C16_FatalFailedAndQueued ==
    [][(pc = "unit" /\ Len(log') > Len(log) /\ FatalAnswer(log'[Len(log) + 1]))
        => /\ results'[Len(results')].Status = "Failed"
           /\ Len(failed_operations') = Len(failed_operations) + 1
           /\ failed_operations'[Len(failed_operations')].error =
                  log'[Len(log) + 1].err]_vars

----------------------------------------------------------------------------
\* Properties of the status poller and of the export wait loops

KnownCodes == {<<100>>, <<0>>, <<1>>, <<2>>, <<-1>>, <<-2>>, <<99>>}

\* C6: for a status answer with HTTP 200 and a JSON body, check_job_status
\* maps 100 to completed, 0 to pending, 1 and 2 to processing, -1 to failed,
\* -2 to cancelled and 99 to expired; only 100 gives completed, and every
\* other code, a missing code included, gives unknown.
C6_StatusMapping ==
    (epc = "queried" /\ status_input.kind = "http" /\ status_input.code = 200
        /\ status_input.json) =>
        LET code == status_input.jobStatus
            status == job_status.status
        IN  /\ code = <<100>> <=> status = "completed"
            /\ code = <<0>> => status = "pending"
            /\ code \in {<<1>>, <<2>>} => status = "processing"
            /\ code = <<-1>> <=> status = "failed"
            /\ code = <<-2>> => status = "cancelled"
            /\ code = <<99>> => status = "expired"
            /\ code \notin KnownCodes => status = "unknown"
            /\ job_status.jobStatus = code

\* a query answered with a code the table does not have
C6_Witness ==
    /\ epc = "queried"
    /\ status_input.kind = "http" /\ status_input.code = 200
    /\ status_input.jobStatus = <<101>>
    /\ job_status.status = "unknown"

\* C18: check_job_status always returns: a transport exception, a status
\* other than 200 and a 200 whose body is not a JSON object each give a
\* snapshot with status 'error' and a failure message.
C18_FailureGivesErrorSnapshot ==
    (epc = "queried"
        /\ (status_input.kind # "http" \/ status_input.code # 200
                \/ ~status_input.json))
    => /\ job_status.status = "error"
       /\ job_status.message # NoneMsg
       /\ Truthy(job_status.message)
       /\ status_input.kind = "http" /\ status_input.code # 200 =>
              job_status.message =
                  <<"Failed to get status: HTTP ", ToString(status_input.code)>>

\* a query that timed out and one answered with HTTP 200 and a broken body
C18_Witness ==
    /\ epc = "queried"
    /\ status_input \in {TimeoutResp, BadJsonResp}
    /\ job_status.status = "error"

\* the result of the batch whose wait has just ended
LastResult == export_results[Len(export_results)]

WaitEnded == mode \in {"direct", "phase"} /\ epc # "wait" /\ polls > 0

\* C7: a wait whose status queries keep returning pending or processing stops
\* when the waited time reaches EXPORT_MAX_WAIT, after at most
\* EXPORT_MAX_WAIT / EXPORT_CHECK_INTERVAL queries, and the unit's result is
\* 'Timeout'; this holds in process_export_batch and in run_direct_export.
C7_WaitTimesOut ==
    /\ (mode \in {"direct", "phase"} /\ epc = "wait") =>
          /\ waited = polls * EXPORT_CHECK_INTERVAL
          /\ waited < EXPORT_MAX_WAIT
    /\ (WaitEnded /\ job_status.status \in {"pending", "processing"}) =>
          /\ waited = polls * EXPORT_CHECK_INTERVAL
          /\ waited >= EXPORT_MAX_WAIT
          /\ waited < EXPORT_MAX_WAIT + EXPORT_CHECK_INTERVAL
          /\ Len(export_results) > 0
          /\ LastResult.Status = "Timeout"
          /\ LastResult.Job_ID = wait_job_id
          /\ LastResult.Company = export_batches[bi - 1].company_name

\* a wait of run_direct_export that ended on the budget, the job processing
C7_Witness ==
    /\ mode = "direct"
    /\ WaitEnded
    /\ job_status.status = "processing"
    /\ waited = EXPORT_MAX_WAIT
    /\ LastResult.Status = "Timeout"

\* C8: in both wait loops a status query that returns failed, cancelled,
\* expired or unknown ends the wait at that query: the loop goes on polling
\* only after pending or processing.
C8_TerminalStopsWait ==
    (mode \in {"direct", "phase"} /\ epc = "wait" /\ polls > 0) =>
        job_status.status \in {"pending", "processing"}

\* C9: an export result gets status 'Success' only at a status query of its
\* job that returned completed (vendor code 100) and after the
\* download_export call that followed returned success.
C9_SuccessOnlyWhenCompleted ==
    [][ \A k \in 1..Len(export_results') :
            (/\ export_results'[k].Status = "Success"
             /\ (k <= Len(export_results) => export_results[k].Status # "Success"))
            => /\ job_status'.status = "completed"
               /\ job_status'.jobStatus = <<100>>
               /\ dl_outcome' = "ok"
               /\ export_results'[k].Job_ID = wait_job_id ]_vars

\* a batch of process_export_batch recorded as 'Success'
C9_Witness ==
    /\ mode = "phase"
    /\ WaitEnded
    /\ LastResult.Status = "Success"
    /\ job_status.status = "completed"
    /\ dl_outcome = "ok"

Occurrences(seq, x) == Cardinality({ i \in 1..Len(seq) : seq[i] = x })

\* C10: in run_direct_export every batch gone through has exactly one entry
\* in export_results and at most one in failed_exports.
C10_OneEntryPerBatch ==
    mode = "direct" =>
        /\ Len(export_results) = bi - 1
        /\ \A b \in 1..Len(export_batches) :
              Occurrences(failed_exports, export_batches[b]) <= 1

----------------------------------------------------------------------------
\* Properties of a single submission call

\* the failures the spec calls transient, as pull_gst_report retries them
Transient(response) ==
    \/ response.kind \in {"timeout", "connection"}
    \/ response.kind = "http" /\ response.code \in {429, 500}

\* the number of transient answers a script starts with
RECURSIVE TransientPrefix(_)
TransientPrefix(script) ==
    IF script = <<>> \/ ~Transient(script[1]) THEN 0
    ELSE 1 + TransientPrefix(Tail(script))

TransientReason(response) ==
    CASE response.kind = "timeout" -> <<"Request timeout">>
      [] response.kind = "connection" -> <<"Connection error - Check internet">>
      [] response.code = 429 -> <<"Rate limit exceeded">>
      [] OTHER -> <<"OCTA GST server error">>

PullCalled == mode = "submit" /\ pull_ret # NoRet
ExportCalled == mode = "submit" /\ export_ret # NoRet
SubmitEnabled == submit_input.report_type \in gst_enabled

\* C11: a call of pull_gst_report makes at most API_RETRY_COUNT POSTs: one
\* per transient answer (429, 500, timeout, connection error, in any mix)
\* while attempts remain, and one more for the answer that follows; when the
\* last attempt is transient too the call fails with the reason of that last
\* answer.
C11_AtMostThreePosts ==
    PullCalled =>
        LET k == TransientPrefix(submit_input.script)
        IN  /\ pull_ret.posts <= API_RETRY_COUNT
            /\ SubmitEnabled =>
                  /\ pull_ret.posts = Min(k + 1, API_RETRY_COUNT)
                  /\ k = API_RETRY_COUNT =>
                        /\ ~pull_ret.success
                        /\ pull_ret.job_id = NoneT
                        /\ pull_ret.error =
                              TransientReason(submit_input.script[API_RETRY_COUNT])

\* a call answered by a rate limit, a timeout and a connection error
C11_Witness ==
    /\ PullCalled
    /\ submit_input.script = <<Status(429), Timeout, ConnError>>
    /\ pull_ret.posts = 3
    /\ pull_ret.error = <<"Connection error - Check internet">>

\* C12: a pull submission answered with any status of the 5xx class is
\* retried while attempts remain.
C12_Every5xxRetried ==
    (PullCalled /\ SubmitEnabled
        /\ submit_input.script[1].kind = "http"
        /\ submit_input.script[1].code \in 500..599)
    => pull_ret.posts >= 2

\* C13: a pull submission whose first k < 3 answers are transient and whose
\* next answer is HTTP 200 with a job id returns (True, job_id, None), as a
\* first-try success does.
C13_RetriedSuccessSameAsFirstTry ==
    PullCalled /\ SubmitEnabled =>
        LET k == TransientPrefix(submit_input.script)
        IN  (k < API_RETRY_COUNT /\ submit_input.script[k + 1] = Ok("J123")) =>
                /\ pull_ret.success
                /\ pull_ret.job_id = "J123"
                /\ pull_ret.error = NoneMsg

\* a success on the third attempt, after a server error and a timeout
C13_Witness ==
    /\ PullCalled
    /\ submit_input.script = <<Status(500), Timeout, Ok("J123")>>
    /\ pull_ret.success /\ pull_ret.job_id = "J123" /\ pull_ret.error = NoneMsg
    /\ pull_ret.posts = 3

\* C14: for the same vendor answers export_gst_report retries as
\* pull_gst_report does and ends in the same outcome class.
C14_ExportRetriesLikePull ==
    (PullCalled /\ ExportCalled /\ SubmitEnabled) =>
        /\ export_ret.success = pull_ret.success
        /\ export_ret.posts = pull_ret.posts

\* C15: HTTP 400 with Octa-ErrorCode 2000 gives the not-connected reason, the
\* message matched by substring, from pull_gst_report and from
\* export_gst_report.
C15_NotConnectedReasonBoth ==
    (PullCalled /\ ExportCalled /\ SubmitEnabled
        /\ submit_input.script[1].kind = "http"
        /\ submit_input.script[1].code = 400
        /\ submit_input.script[1].errcode = "2000")
    => /\ Contains(pull_ret.error, NOT_CONNECTED)
       /\ Contains(export_ret.error, NOT_CONNECTED)

\* C17: for a report type that GST_REPORTS does not have, or that is not
\* enabled, pull_gst_report and export_gst_report fail with a message about
\* the report type and make no HTTP request.
C17_UnknownOrDisabledFailsFast ==
    LET report_type == submit_input.report_type
        message == IF report_type \notin GST_REPORTS
                   THEN <<"Unknown report type: ", report_type>>
                   ELSE <<report_type,
                          " is not yet enabled. Waiting for API documentation.">>
        FailedFast(ret) ==
            ~ret.success /\ ret.job_id = NoneT /\ ret.posts = 0
                /\ ret.error = message
    IN  ~SubmitEnabled =>
            /\ PullCalled => FailedFast(pull_ret)
            /\ ExportCalled => FailedFast(export_ret)

\* both methods called with a report type that is known but not enabled
C17_Witness ==
    /\ PullCalled /\ ExportCalled
    /\ submit_input.report_type = "GSTR-1"
    /\ submit_input.report_type \in GST_REPORTS
    /\ pull_ret.posts = 0 /\ export_ret.posts = 0
    /\ ~pull_ret.success /\ ~export_ret.success

----------------------------------------------------------------------------
\* Properties of smart_retry_with_backoff

\* the positions in the history of the submissions made for queued operation u
RetryCalls(u) ==
    { i \in 1..Len(log) :
        log[i].ev # "sleep" /\ log[i].ph = "retry" /\ log[i].c = u }

\* the seconds slept for queued operation u, in order, from position i on
RECURSIVE DelaysFrom(_, _)
DelaysFrom(u, i) ==
    IF i > Len(log) THEN <<>>
    ELSE (IF i > 1 /\ log[i].ev = "sleep" /\ log[i].ph = "retry"
             /\ log[i - 1].ph = "retry" /\ log[i - 1].c = u
          THEN <<log[i].n>> ELSE <<>>) \o DelaysFrom(u, i + 1)

\* the queued operations whose three attempts all failed
GivenUp == { u \in 1..Len(retry_results) : retry_results[u].retry_status = "Failed" }

\* C19 as stated: a queued unit whose 3 attempts all fail has slept 2, 4 and
\* 8 seconds.
C19_DelaysTwoFourEight ==
    \A u \in GivenUp : DelaysFrom(u, 1) = <<2, 4, 8>>

\* C19: a queued unit whose 3 attempts all fail has slept 2 and 4 seconds,
\* one delay after each of the first two attempts and none after the third,
\* each delay min(base^attempt, max_wait); a unit that succeeded at attempt a
\* has slept the first a - 1 of them.
C19_DelaysBetweenAttempts ==
    /\ \A u \in GivenUp : DelaysFrom(u, 1) = <<2, 4>>
    /\ \A u \in 1..Len(retry_results) :
          DelaysFrom(u, 1) =
              [a \in 1..(retry_results[u].retry_attempts - 1) |->
                  Min(RETRY_EXPONENTIAL_BASE ^ a, RETRY_MAX_WAIT)]

\* a queue gone through in which a unit failed three times
C19_Witness ==
    /\ pc = "update"
    /\ \E u \in GivenUp :
          /\ Cardinality(RetryCalls(u)) = 3
          /\ Len(DelaysFrom(u, 1)) = 2

\* C20: smart_retry_with_backoff submits each queued unit at most 3 times,
\* with the method of the unit's operation type, and not again after a
\* success; a unit gone through has exactly one retry result, 'Failed' exactly
\* when 3 attempts failed, with the error of the third attempt as final_error.
C20_ThreeAttemptsThenFailed ==
    /\ \A u \in 1..Len(failed_operations) :
          /\ Cardinality(RetryCalls(u)) <= 3
          /\ \A i \in RetryCalls(u) :
                /\ log[i].ev = failed_operations[u].operation_type
                /\ log[i].ok => \A j \in RetryCalls(u) : j <= i
    /\ pc = "retry" => Len(retry_results) = ro - 1
    /\ pc = "update" => Len(retry_results) = Len(failed_operations)
    /\ \A u \in 1..Len(retry_results) :
          LET calls == RetryCalls(u)
              last == CHOOSE i \in calls : \A j \in calls : j <= i
          IN  /\ retry_results[u].operation = failed_operations[u]
              /\ Cardinality(calls) = retry_results[u].retry_attempts
              /\ retry_results[u].retry_status = "Failed" <=> ~log[last].ok
              /\ retry_results[u].retry_status = "Success" <=> log[last].ok
              /\ ~log[last].ok =>
                    /\ Cardinality(calls) = 3
                    /\ log[last].r = 3
                    /\ retry_results[u].final_error = log[last].err

\* a queue gone through with an export that failed three times and a pull
\* that succeeded at its second attempt
C20_Witness ==
    /\ pc = "update"
    /\ \E u, v \in 1..Len(retry_results) :
          /\ failed_operations[u].operation_type = "export"
          /\ retry_results[u].retry_status = "Failed"
          /\ Cardinality(RetryCalls(u)) = 3
          /\ failed_operations[v].operation_type = "pull"
          /\ retry_results[v].retry_status = "Success"
          /\ retry_results[v].retry_attempts = 2

----------------------------------------------------------------------------
\* Properties of the retry queue and of the results after the retry phase

\* the queue entry of a result
OpOfResult(r) ==
    FailedOp(r.Report_Type, r.Company_ID, r.Company_Name, r.GSTIN,
             r.Return_Period, r.Error_Message)

\* the queue entries of the results with status 'Failed', in order
RECURSIVE FailedOpsOf(_)
FailedOpsOf(rs) ==
    IF rs = <<>> THEN <<>>
    ELSE (IF rs[1].Status = "Failed" THEN <<OpOfResult(rs[1])>> ELSE <<>>)
         \o FailedOpsOf(Tail(rs))

\* the results not yet touched by the update after the retry phase
BeforeUpdate == pc \in {"company", "month", "unit", "after_loop", "retry", "update"}

\* C21: up to the update that follows the retry phase, the retry queue holds
\* exactly the units whose result is 'Failed', in the order of the results;
\* no unit whose result is 'Skipped' or 'Success' is queued, and every
\* submission of the retry phase is for a unit whose result is 'Failed'.
C21_QueueIffFailed ==
    (mode = "none" /\ BeforeUpdate) =>
        /\ failed_operations = FailedOpsOf(results)
        /\ \A k \in 1..Len(results) :
              results[k].Status \in {"Skipped", "Success"} =>
                  \A u \in 1..Len(failed_operations) :
                      failed_operations[u] # OpOfResult(results[k])
        /\ \A i \in 1..Len(log) :
              log[i].ph = "retry" /\ log[i].ev # "sleep" =>
                  \E k \in 1..Len(results) :
                      /\ results[k].Status = "Failed"
                      /\ OpOfResult(results[k]) = failed_operations[log[i].c]

\* the position in the retry queue of the unit of the 'Failed' result k
QueueIndex(k) == Len(FailedOpsOf(SubSeq(results, 1, k)))

\* C22: the update after the retry phase keeps the number of results; the
\* 'Failed' result of a unit whose retry succeeded becomes 'Success (After
\* Retry)' with the retry's job id, the 'Failed' result of a unit whose
\* retries were exhausted stays as it is, and so does every other result.
C22_UpdateInPlace ==
    [][pc = "update" =>
        /\ Len(results') = Len(results)
        /\ \A k \in 1..Len(results) :
              IF results[k].Status = "Failed"
                    /\ retry_results[QueueIndex(k)].retry_status = "Success"
              THEN results'[k] =
                      [results[k] EXCEPT
                          !.Status = "Success (After Retry)",
                          !.Job_ID = retry_results[QueueIndex(k)].job_id]
              ELSE results'[k] = results[k]]_vars

\* a retry phase gone through after a main loop that left a 'Failed', a
\* 'Skipped' and a 'Success' result
C21_Witness ==
    /\ mode = "none" /\ pc = "update"
    /\ \E i, j, k \in 1..Len(results) :
          /\ results[i].Status = "Failed"
          /\ results[j].Status = "Skipped"
          /\ results[k].Status = "Success"
    /\ Len(failed_operations) = 1
    /\ \E i \in 1..Len(log) : log[i].ph = "retry" /\ log[i].ev = "pull"

----------------------------------------------------------------------------
\* Properties of the order and of the pacing of the main loop

\* months strictly ascending, each the month after the one before
Ascending(ms) ==
    \A i \in 1..(Len(ms) - 1) :
        /\ ms[i + 1] = NextMonth(ms[i])
        /\ PeriodLE(ms[i], ms[i + 1]) /\ ms[i] # ms[i + 1]

\* (company, period, report type) positions in lexicographic order
LexBefore(a, b) ==
    \/ a.c < b.c
    \/ a.c = b.c /\ a.m < b.m
    \/ a.c = b.c /\ a.m = b.m /\ a.r < b.r

InMainLoop == mode = "none" /\ pc \in {"company", "month", "unit", "after_loop"}

\* C23: generate_month_range yields the months from the earlier to the later
\* period in ascending order, whichever of the two is given first; in the
\* main loop of run_pull_operation the submissions are made, and the results
\* appended, in the order company, period, report type: the k-th result is
\* that of the k-th unit of that order.
C23_UnitsInOrder ==
    /\ \A p \in PeriodInputs :
          LET ms == generate_month_range(p[1], p[2])
          IN  /\ Ascending(ms)
              /\ Len(ms) >= 1
              /\ ms[1] = FirstPeriod
              /\ ms[Len(ms)] = IF p[1] = FirstPeriod THEN p[2] ELSE p[1]
              /\ ms = generate_month_range(p[2], p[1])
    /\ mode = "none" /\ pc # "idle" => Ascending(months)
    /\ InMainLoop =>
          /\ \A k \in 1..Len(results) : ResultOfUnit(results[k], k)
          /\ \A i, j \in 1..Len(log) :
                (i < j /\ log[i].ev = "pull" /\ log[j].ev = "pull") =>
                    LexBefore(log[i], log[j])

\* the main loop gone through for two companies and two periods, with a
\* submission for each of them
C23_Witness ==
    /\ mode = "none" /\ pc = "after_loop"
    /\ Len(companies) = 2 /\ Len(months) = 2
    /\ Len(results) = 4
    /\ \E i, j, k \in 1..Len(log) :
          /\ log[i].ev = "pull" /\ log[j].ev = "pull" /\ log[k].ev = "pull"
          /\ log[i].c = 1 /\ log[i].m = 1
          /\ log[j].c = 1 /\ log[j].m = 2
          /\ log[k].c = 2 /\ log[k].m = 1

\* C24: in the main loop of run_pull_operation a delay of
\* PULL_DELAY_BETWEEN_CALLS is slept between every two successive submissions,
\* and none for a unit that was skipped without a submission.
C24_DelayBetweenCalls ==
    InMainLoop =>
        /\ \A i, j \in 1..Len(log) :
              (i < j /\ log[i].ev = "pull" /\ log[j].ev = "pull") =>
                  \E s \in (i + 1)..(j - 1) :
                      log[s].ev = "sleep" /\ log[s].n = PULL_DELAY_BETWEEN_CALLS
        /\ \A s \in 1..Len(log) :
              log[s].ev = "sleep" => s > 1 /\ log[s - 1].ev = "pull"

----------------------------------------------------------------------------
\* Properties of the export results and of download_export

\* the entries a step appends to export_results
NewResults ==
    SubSeq(export_results', Len(export_results) + 1, Len(export_results'))

\* why a step ended the batch in hand: the submission failed, the download
\* after a completed status failed, the status query returned failed, or the
\* poll budget ran out; "none" for a step that ends it in no such way (a
\* status other than failed that the path takes for a failed job included)
CauseOfStep ==
    IF epc = "submit"
    THEN (IF epc' = "wait" THEN "none" ELSE "submission")
    ELSE IF dl_outcome' = "failed" THEN "download"
    ELSE IF dl_outcome' = "ok" THEN "none"
    ELSE IF job_status'.status = "failed" THEN "job failed"
    ELSE IF mode = "direct" /\ DirectFailed(job_status'.status) THEN "none"
    ELSE IF mode = "phase" /\ BatchFailed(job_status'.status) THEN "none"
    ELSE IF epc' # "wait" THEN "budget"
    ELSE "none"

StatusOfCause(cause) ==
    CASE cause = "submission" -> "Failed to Create Job"
      [] cause = "download" -> "Download Failed"
      [] cause = "job failed" -> "Job Failed"
      [] cause = "budget" -> "Timeout"
      [] OTHER -> "none"

\* C25: in both export paths each of the four failure causes is reported
\* under its own status and no other: a failed submission as 'Failed to
\* Create Job', a failed download after a completed status as 'Download
\* Failed' with the download's message, a status query returning failed as
\* 'Job Failed', an exhausted poll budget as 'Timeout'.
C25_FailureKindsDistinct ==
    [][(mode \in {"direct", "phase"} /\ CauseOfStep # "none") =>
          /\ Len(NewResults) >= 1
          /\ \A k \in 1..Len(NewResults) :
                NewResults[k].Status = StatusOfCause(CauseOfStep)
          /\ CauseOfStep = "download" => Truthy(NewResults[1].Error)]_vars

\* the call of download_export made, and what it was answered
DownloadCalled == mode = "download" /\ dl_ret # NoDlRet
Requeried == check_job_status(download_input[1])

\* C26: download_export makes the GET on the download URL only when the
\* re-queried snapshot is completed and carries a non-empty url; a completed
\* snapshot without url fails with the no-download-URL message, every other
\* status, error included, with the job-not-ready message, and in both cases
\* there is no GET and no file.
C26_DownloadOnlyWhenCompleted ==
    DownloadCalled =>
        LET completed == Requeried.status = "completed"
            has_url == Requeried.url # NoneMsg /\ Requeried.url # EmptyStr
        IN  /\ dl_ret.gets = 1 <=> (completed /\ has_url)
            /\ dl_ret.gets \in {0, 1}
            /\ (completed /\ ~has_url) =>
                  /\ ~dl_ret.success /\ dl_ret.filepath = NoneMsg
                  /\ dl_ret.filename = <<"No download URL in completed job">>
                  /\ dl_ret.gets = 0 /\ dl_ret.written = -1
            /\ ~completed =>
                  /\ ~dl_ret.success /\ dl_ret.filepath = NoneMsg
                  /\ dl_ret.filename[1] = "Job not ready. Status: "
                  /\ dl_ret.gets = 0 /\ dl_ret.written = -1

\* a call whose re-query was answered with an HTTP error
C26_Witness ==
    /\ DownloadCalled
    /\ download_input[1] = HttpResp(500)
    /\ Requeried.status = "error"
    /\ dl_ret.gets = 0

\* C27: download_export fails, with no file path, when the file found after
\* an HTTP 200 download is empty or missing, and returns success, with the
\* path and the filename, only when a file of more than zero bytes is found.
C27_EmptyFileFails ==
    DownloadCalled =>
        LET file == download_input[2]
        IN  /\ (dl_ret.gets = 1 /\ file.kind = "http" /\ file.code = 200
                   /\ file.size <= 0)
               => /\ ~dl_ret.success /\ dl_ret.filepath = NoneMsg
                  /\ dl_ret.filename = <<"File creation failed or file is empty">>
            /\ dl_ret.success =>
                  /\ dl_ret.gets = 1 /\ file.kind = "http" /\ file.code = 200
                  /\ file.size > 0 /\ dl_ret.written = file.size
                  /\ Truthy(dl_ret.filename)
                  /\ dl_ret.filepath = <<EXPORT_OUTPUT_DIR, "/">> \o dl_ret.filename
            /\ (dl_ret.gets = 1 /\ file.kind = "http" /\ file.code = 200
                   /\ file.size > 0) => dl_ret.success

\* an HTTP 200 download that left a file of zero bytes
C27_Witness ==
    /\ DownloadCalled
    /\ dl_ret.gets = 1
    /\ download_input[2].kind = "http" /\ download_input[2].code = 200
    /\ download_input[2].size = 0
    /\ ~dl_ret.success

\* the sources of the filename of a download that succeeded: the filename of
\* the content-disposition header, <<>> when it carries none, the last
\* segment of the URL, and the synthesized name
HeaderName ==
    IF download_input[2].disp = <<"attachment; ", "filename=", "export.xlsx">>
    THEN <<"export.xlsx">> ELSE <<>>
UrlSegment == Requeried.url[Len(Requeried.url)]
SynthesizedName == <<"GSTR2A_Export_", wait_job_id, "_", "<timestamp>", ".xlsx">>

\* the filename by priority, for a given set of segments the URL source
\* accepts
NameByPriority(accepted) ==
    IF HeaderName # <<>> THEN HeaderName
    ELSE IF UrlSegment \in accepted THEN <<UrlSegment>>
    ELSE SynthesizedName

\* C30 as stated: the filename is that of the header when it carries one,
\* else the last URL segment when the segment has the spreadsheet extension,
\* else the synthesized name.
C30_ExtensionPriority ==
    (DownloadCalled /\ dl_ret.success) =>
        dl_ret.filename = NameByPriority({"report.xlsx"})

\* C30: the filename is that of the header when it carries one, else the
\* last URL segment when the segment contains '.xlsx', at its end or not,
\* else the synthesized name; a lower source is used only when every higher
\* one is absent.
C30_FilenamePriority ==
    (DownloadCalled /\ dl_ret.success) =>
        /\ dl_ret.filename = NameByPriority({"report.xlsx", "report.xlsx.tmp"})
        /\ dl_ret.filename = SynthesizedName =>
              HeaderName = <<>> /\ UrlSegment \in {"download", ""}
        /\ (HeaderName = <<>> /\ dl_ret.filename = <<UrlSegment>>) =>
              UrlSegment \in {"report.xlsx", "report.xlsx.tmp"}

\* a download named after a URL segment with '.xlsx' inside it, the header
\* carrying no filename
C30_Witness ==
    /\ DownloadCalled /\ dl_ret.success
    /\ HeaderName = <<>>
    /\ UrlSegment = "report.xlsx.tmp"
    /\ dl_ret.filename = <<"report.xlsx.tmp">>

----------------------------------------------------------------------------
\* Properties of the pacing of the export waits

\* the wait loop of process_export_batch, running or just ended
InBatchWait == mode = "phase" /\ epc \in {"wait", "submit", "done"} /\ polls > 0
\* the wait loop of the retry pass, running or just ended
InRetryWait == mode = "phase" /\ epc \in {"retry_wait", "retry_submit", "end"} /\ polls > 0

\* C29: an export wait sleeps the check interval before each status query:
\* the k-th query of a wait is made k intervals after the submission, the
\* first one interval after it, and a wait makes at most ceil(budget /
\* interval) queries: 60 in process_export_batch (180 s, 3 s) and 18 in the
\* retry pass of run_export_phase (180 s, 10 s).
C29_QueriesWithinBudget ==
    /\ InBatchWait =>
          /\ waited = polls * EXPORT_CHECK_INTERVAL /\ EXPORT_CHECK_INTERVAL = 3
          /\ polls <= 60
          /\ 60 * 3 >= EXPORT_MAX_WAIT /\ 59 * 3 < EXPORT_MAX_WAIT
    /\ InRetryWait =>
          /\ waited = polls * retry_check_interval /\ retry_check_interval = 10
          /\ polls <= 18
          /\ 18 * 10 >= EXPORT_RETRY_TIMEOUT /\ 17 * 10 < EXPORT_RETRY_TIMEOUT
    /\ (mode = "phase" /\ epc \in {"wait", "retry_wait"} /\ polls = 0) => waited = 0

\* a retry wait that used its whole budget after a first wait that did too
C29_Witness ==
    /\ mode = "phase" /\ epc \in {"retry_submit", "end"}
    /\ polls = 18 /\ waited = 180
    /\ job_status.status \in {"pending", "processing"}
    /\ \E k \in 1..Len(export_results) : export_results[k].Status = "Timeout"

----------------------------------------------------------------------------
\* Properties of the identifiers carried by the network calls

\* batch k has been submitted to the vendor
Submitted(k) == mode = "direct" /\ (k < bi \/ (k = bi /\ epc = "wait"))

CanonicalId(company_id) == company_id # EmptyStr /\ company_id[1] = "oc-"

\* C28: every network call of the direct-export path carries a company id
\* with the 'oc-' prefix and an uppercased GSTIN, whichever input path
\* (spreadsheet, single entry, multiple entries) produced the batch.
C28_CallsCarryNormalizedIds ==
    \A k \in 1..Len(export_batches) :
        Submitted(k) =>
            /\ CanonicalId(export_batches[k].company_id)
            /\ export_batches[k].gstin = Upper(export_batches[k].gstin)

----------------------------------------------------------------------------
\* Properties of the pull batch with the skip toggle off

\* the main-loop submission of the unit of the k-th result
MainPullOf(k) ==
    { i \in MainPulls(UnitC(k)) : log[i].m = UnitM(k) /\ log[i].r = UnitR(k) }

\* C31: with SKIP_NOT_CONNECTED_COMPANIES off, a pull that returns the
\* not-connected reason does not set the company flag; the unit is recorded
\* as 'Failed' and enters the retry queue, and every unit of the company,
\* those of the later periods included, is still submitted: no unit of a
\* company with Company ID and GSTIN is 'Skipped'.
C31_ToggleOffKeepsPulling ==
    (~skip_toggle /\ mode = "none") =>
        /\ ~company_not_connected
        /\ not_connected_error = NoneMsg
        /\ \A k \in 1..Len(results) :
              ValidCompany(UnitC(k)) =>
                  /\ results[k].Status # "Skipped"
                  /\ Cardinality(MainPullOf(k)) = 1
                  /\ \A i \in MainPullOf(k) :
                        /\ report_types[UnitR(k)] \in gst_enabled => log[i].n > 0
                        /\ (log[i].nc /\ BeforeUpdate) =>
                              /\ results[k].Status = "Failed"
                              /\ \E u \in 1..Len(failed_operations) :
                                    failed_operations[u] = OpOfResult(results[k])

\* the toggle is off, a pull of the first period returned the not-connected
\* reason and a later period of the same company was submitted with requests
C31_Witness ==
    /\ ~skip_toggle /\ mode = "none" /\ pc = "after_loop"
    /\ \E i, j \in 1..Len(log) :
          /\ log[i].ev = "pull" /\ log[i].ph = "main" /\ log[i].nc
          /\ log[j].ev = "pull" /\ log[j].ph = "main" /\ log[j].c = log[i].c
          /\ log[j].m > log[i].m /\ log[j].n > 0

----------------------------------------------------------------------------
\* Properties of the retry pass of run_export_phase

InRetryPass == mode = "phase" /\ epc \in {"done", "retry_submit", "retry_wait"}

\* C32: in the retry pass of run_export_phase every failed batch is taken
\* once, in the order of failed_exports: after its submission the pass either
\* waits for that job or moves to the next batch and never comes back; the
\* pass adds no entry to export_results and removes none, and a step of the
\* pass that is not a successful download of the retried job leaves
\* export_results as it was.
C32_RetryPassFrame ==
    [][InRetryPass =>
          /\ Len(export_results') = Len(export_results)
          /\ failed_exports' = failed_exports
          /\ epc = "retry_submit" =>
                \/ epc' = "retry_wait" /\ bi' = bi /\ bi <= Len(failed_exports)
                \/ epc' = "retry_submit" /\ bi' = bi + 1 /\ bi <= Len(failed_exports)
                \/ epc' = "end" /\ bi' = bi /\ bi = Len(failed_exports) + 1
          /\ epc = "retry_wait" =>
                \/ epc' = "retry_wait" /\ bi' = bi
                \/ epc' = "retry_submit" /\ bi' = bi + 1
          /\ dl_outcome' # "ok" => export_results' = export_results]_vars

\* every failed batch has been retried, the last retry ending with a failed
\* job or a failed download
C32_Witness ==
    /\ mode = "phase" /\ epc = "retry_submit" /\ bi = Len(failed_exports) + 1
    /\ polls > 0
    /\ \/ job_status.status = "failed"
       \/ dl_outcome = "failed"
    /\ \A k \in 1..Len(export_results) : export_results[k].Status # "Success (Retry)"

----------------------------------------------------------------------------
\* Properties of the unit that a successful retry upgrades

\* retry entry v is the successful retry of the unit of result r
RetriedUnit(r, v) ==
    /\ retry_results[v].retry_status = "Success"
    /\ retry_results[v].operation.company_id = r.Company_ID
    /\ retry_results[v].operation.gstin = r.GSTIN
    /\ retry_results[v].operation.return_period = r.Return_Period
    /\ retry_results[v].operation.report_type = r.Report_Type

\* C33: a result that the update after the retry phase upgrades to 'Success
\* (After Retry)' is the result of a unit whose retry succeeded: a successful
\* retry entry has its Company ID, GSTIN, period and report type, and its job
\* id is the one written; also when rows of the input share a company name.
C33_UpgradeHitsRetriedUnit ==
    [][pc = "update" =>
        \A k \in 1..Len(results) :
            results'[k] # results[k] =>
                /\ results'[k].Status = "Success (After Retry)"
                /\ \E v \in 1..Len(retry_results) :
                      /\ RetriedUnit(results[k], v)
                      /\ results'[k].Job_ID = retry_results[v].job_id]_vars

\* the entries that a step changes
ChangedEntries ==
    { k \in 1..Len(export_results) : export_results'[k] # export_results[k] }

\* C34: a successful retry of the retry pass of run_export_phase modifies
\* the entry of the retried batch only: the entry that changes has the GSTIN
\* of the batch and was not 'Success'; every other entry stays as it was.
C34_RetryUpdatesOwnEntry ==
    [][(mode = "phase" /\ epc = "retry_wait" /\ Len(export_results') = Len(export_results)) =>
          \A k \in ChangedEntries :
              /\ export_results[k].GSTIN = failed_exports[bi].gstin
              /\ export_results[k].Status # "Success"
              /\ ChangedEntries = {k}]_vars

----------------------------------------------------------------------------
\* Properties of the status of a submitted unit

\* C35: in the main loop a unit of a company with Company ID and GSTIN is
\* 'Skipped' only if no request was made for it or its own submission
\* returned the not-connected reason; a unit whose own submission made
\* requests and failed for another reason is 'Failed' and is in the retry
\* queue.
C35_SkippedOnlyWhenNotConnected ==
    (mode = "none" /\ BeforeUpdate) =>
        \A k \in 1..Len(results) :
            ValidCompany(UnitC(k)) =>
                /\ results[k].Status = "Skipped" =>
                      \/ \A i \in MainPullOf(k) : log[i].n = 0
                      \/ \E i \in MainPullOf(k) : log[i].nc
                /\ \A i \in MainPullOf(k) :
                      (log[i].n > 0 /\ ~log[i].ok /\ ~log[i].nc) =>
                          /\ results[k].Status = "Failed"
                          /\ \E u \in 1..Len(failed_operations) :
                                failed_operations[u] = OpOfResult(results[k])

----------------------------------------------------------------------------
\* Properties of a failed status query during an export wait

\* the step is a status query of the wait loop that returned `status`
PolledAs(status) ==
    /\ mode \in {"direct", "phase"} /\ epc = "wait"
    /\ polls' = polls + 1
    /\ job_status'.status = status

\* C36: a status snapshot with status 'error' ends the export wait at that
\* poll, in run_direct_export and in process_export_batch: the step leaves
\* the wait and moves to the next batch, so the job is not queried again, and
\* it appends a 'Job Failed' entry with the job id for the batch, which is
\* queued in failed_exports.
C36_ErrorSnapshotEndsWait ==
    [][PolledAs("error") =>
          /\ epc' # "wait"
          /\ bi' = bi + 1
          /\ Len(export_results') > Len(export_results)
          /\ export_results'[Len(export_results) + 1].Status = "Job Failed"
          /\ export_results'[Len(export_results) + 1].Job_ID = wait_job_id
          /\ export_results'[Len(export_results) + 1].GSTIN = export_batches[bi].gstin
          /\ Len(failed_exports') > Len(failed_exports)
          /\ failed_exports'[Len(failed_exports) + 1] = export_batches[bi]]_vars

\* a direct export whose first status query failed
C36_Witness ==
    /\ mode = "direct" /\ epc # "wait"
    /\ polls = 1 /\ job_status.status = "error"
    /\ Len(export_results) = 1
    /\ export_results[1].Status = "Job Failed"

----------------------------------------------------------------------------
\* Properties of the batches prepared from the pull results

\* result r lies inside batch b
CoveredBy(r, b) ==
    /\ b.company_id = r.Company_ID
    /\ b.gstin = r.GSTIN
    /\ PeriodLE(b.start_period, r.Return_Period)
    /\ PeriodLE(r.Return_Period, b.end_period)

\* C37: every saved pull result whose status is 'Success' or 'Success (After
\* Retry)' is covered by a batch of prepare_export_batches: a batch of its
\* Company ID and GSTIN whose period range holds its period, for the
\* full_range and for the monthly strategy.
C37_SuccessesAreExported ==
    (mode = "phase" /\ pc = "done") =>
        \A k \in 1..Len(saved) :
            saved[k].Status \in {"Success", "Success (After Retry)"} =>
                \E i \in 1..Len(export_batches) : CoveredBy(saved[k], export_batches[i])

----------------------------------------------------------------------------
\* Properties of the Job ID field of the pull results

HasJobId(r) == r.Job_ID # ""

\* C38: in every result of run_pull_operation, in the list and in the saved
\* file, the Job ID is non-empty exactly when the status is 'Success' or
\* 'Success (After Retry)'; 'Failed' and 'Skipped' results have an empty
\* Job ID.
C38_JobIdIffSuccess ==
    /\ \A k \in 1..Len(results) :
          /\ HasJobId(results[k]) <=>
                results[k].Status \in {"Success", "Success (After Retry)"}
          /\ results[k].Status \in {"Failed", "Skipped"} => results[k].Job_ID = ""
    /\ \A k \in 1..Len(saved) :
          HasJobId(saved[k]) <=>
              saved[k].Status \in {"Success", "Success (After Retry)"}

\* saved results with a unit that succeeded on a retry next to one that
\* did not succeed
C38_Witness ==
    /\ pc = "done"
    /\ \E j, k \in 1..Len(saved) :
          /\ saved[j].Status = "Success (After Retry)" /\ saved[j].Job_ID = "J123"
          /\ saved[k].Status \in {"Failed", "Skipped"}

----------------------------------------------------------------------------
\* Properties of the number of requests made for one unit

\* the entries of the retry queue for the unit of the k-th result
QueueEntriesOf(k) ==
    { u \in 1..Len(failed_operations) :
        /\ failed_operations[u].company_id = results[k].Company_ID
        /\ failed_operations[u].gstin = results[k].GSTIN
        /\ failed_operations[u].return_period = results[k].Return_Period
        /\ failed_operations[u].report_type = results[k].Report_Type }

\* the smart-retry submissions made for the unit of the k-th result
RetryPullsOf(k) == UNION { RetryCalls(u) : u \in QueueEntriesOf(k) }

\* the requests of the submissions at the positions S of the history
RECURSIVE Requests(_)
Requests(S) ==
    IF S = {} THEN 0
    ELSE LET i == CHOOSE x \in S : TRUE IN log[i].n + Requests(S \ {i})

\* C39: over a run of run_pull_operation a unit gets at most 12 pull
\* requests: at most 3 in its submission of the main loop and at most 3
\* smart-retry attempts of at most 3 requests each; a unit that the main loop
\* recorded as 'Skipped' or 'Success' gets no smart-retry submission.
C39_RequestsPerUnit ==
    \A k \in 1..Len(results) :
        /\ Cardinality(MainPullOf(k)) <= 1
        /\ Requests(MainPullOf(k)) <= 3
        /\ Cardinality(RetryPullsOf(k)) <= 3
        /\ \A i \in RetryPullsOf(k) : log[i].n <= 3
        /\ Requests(MainPullOf(k) \cup RetryPullsOf(k)) <= 12
        /\ results[k].Status \in {"Skipped", "Success"} => RetryPullsOf(k) = {}

\* a unit that got 12 requests: its submission and its three retries timed
\* out three times each
C39_Witness ==
    \E k \in 1..Len(results) :
        /\ Requests(MainPullOf(k)) = 3
        /\ Cardinality(RetryPullsOf(k)) = 3
        /\ Requests(MainPullOf(k) \cup RetryPullsOf(k)) = 12

====
